---- MODULE Spec2Model ----
(***************************************************************************)
(* Quixand: sandbox lifecycle (Sandbox facade, LocalDockerAdapter), the    *)
(* shared state store (state.json) and the per-sandbox watchdog process.   *)
(*                                                                         *)
(* One sandbox id stands for the UUID generated by LocalDockerAdapter      *)
(* .create; the container created for it carries the same number as its    *)
(* container id.  Time is the UTC clock in whole seconds.                  *)
(*                                                                         *)
(* Further sections model the playground pool, the proxy and files         *)
(* facades, the container runtimes, a watchdog reading a store of any      *)
(* content, a failing create, a second object obtained by connect, and a   *)
(* PTY session of the Docker runtime, each with a specification of its     *)
(* own over the same variables.                                            *)
(***************************************************************************)
EXTENDS Integers, FiniteSets, Sequences, TLC

\* ------------------------------------------------------------------ bounds
NumSandboxes == 3
NumWriters == 2
MaxTime == 2
MaxTimeout == 1
MaxClock == 123
MaxShutdownCalls == 2
MaxRunTimeout == 2
MaxOpsClock == 3
PoolSize == 2
MaxProxyTimeout == 2
MaxFallbacks == 2
MaxCallTime == 3
NumUrls == 2
MaxLines == 2
NumContainers == 1
NumFiles == 1
MaxLen == 2

\* ------------------------------------------------- program constants
\* watchdog.py:74  max(timeout_seconds * 2, timeout_seconds + 60)
LifetimeGrace == 60
\* playground.py:52  raise SystemExit(143)
SigTermStatus == 143

Ids == 1..NumSandboxes
\* the processes that share the state file in SpecStore
StoreIds == 1..NumWriters
\* Sandbox(timeout=...) and refresh_timeout(seconds) take any integer
Timeouts == 0..MaxTimeout

VARIABLES
    now,          \* datetime.utcnow(), in seconds
    runtimeUp,    \* the container daemon answers (DockerRuntime() can be built)
    containers,   \* container ids present in the runtime
    stateFile,    \* the document stored at Config.state_file(): id -> entry
    fileTorn,     \* the file was opened with mode 'w' (truncated) and not yet written
    fileOpen,     \* watchdogs holding the truncated file open for writing
    scratch,      \* ids with a <root>/scratch/<id> directory
    volumes,      \* ids with a <root>/volumes/<id> directory
    pc,           \* position of the owning process in Sandbox(...)/op/shutdown
    handle,       \* Sandbox._handle (LocalHandle) of the constructed object
    closed,       \* Sandbox._closed of the constructed object
    loaded,       \* `state` local of a running _persist_handle/_remove_state,
                  \* after its own key was set or popped
    sdCalls,      \* Sandbox.shutdown() calls made on the constructed object
    conn,         \* id the object returned by lifecycle.connect() is bound to, 0: none
    raised,       \* a Sandbox.shutdown() call raised to its caller
    wd,           \* position of the watchdog process of the sandbox
    wdSnap,       \* `state` local of the watchdog's main loop, its own key popped
    wdEntry,      \* `entry` local of the watchdog's main loop in the reap branch
    runT,         \* `timeout` argument of the adapter.run call in progress
    runStart,     \* clock reading when exec_in_container was entered
    pgPool,       \* Playground._pool (LifoQueue), bottom first
    pgAll,        \* Playground._all
    pgEntered,    \* Playground._entered
    pgClosed,     \* Playground._closed
    pgReg,        \* the playground is in _ACTIVE_PLAYGROUNDS
    pgPc,         \* position of the thread that uses the playground
    pgLeft,       \* iterations left of the prewarm loop in __enter__
    pgOut,        \* sandbox returned by the last Playground.create(), 0: none
    pgArg,        \* `sbx` argument of the Playground.release() in progress, 0: none
    pgHeld,       \* sandboxes the caller has a reference to (returned by create())
    pgExit,       \* exit status raised by the signal handler, 0: none
    pxPc,         \* position inside ProxyFacade.run / health
    pxCaller,     \* the ProxyFacade method the user called: "run" or "health"
    pxT,          \* `timeout` argument of the call
    pxFbs,        \* number of fallback paths passed to run
    pxNow,        \* time.time() since the call was entered, in seconds
    pxDeadline,   \* `deadline` local of health
    pxPoll,       \* what the last poll of /health gave
    pxReplies,    \* path and status of each request run made, in the order made
    pxBody,       \* `body` local of run: the body of the last reply
    pxOut,        \* how the call ended
    dtCache,      \* ProxyFacade._method_cache: URL -> method, "none": no key
    dtPc,         \* position inside a dynamic call proxy.<name>(...)
    dtUrl,        \* `url` of the dynamic call
    dtOptions,    \* OPTIONS requests made by the dynamic call
    dtMethod,     \* `method` local of the dynamic call
    dtReply,      \* lines of the reply to the OPTIONS request
    dtOut,        \* how the dynamic call ended
    rtCont,       \* backend: container id -> State.Status, "absent": no container
    rtBackend,    \* the runtime class the last call was made on
    rtCall,       \* the last runtime call: "stop", "remove" or "info"
    rtOut,        \* how the last runtime call ended
    flCont,       \* file system of the container: path -> what is there
    flPutTmp,     \* <root>/scratch/<id>/put.tmp on the host
    flGetTmp,     \* <root>/scratch/<id>/get.tmp on the host
    flLast,       \* mode and data of the last files.write that returned, per path
    flOut,        \* the last files call and what its caller got
    wiDoc,        \* what state.json holds, as a watchdog process reads it
    wiCont,       \* the container named by the entry exists in the runtime
    wiPc,         \* position of that watchdog process in main()
    wiOut,        \* how main() ended: its exit code or the exception it raised
    refArg,       \* `seconds` of the refresh_timeout call in progress on the object
    chHandle,     \* LocalHandle of the object that lifecycle.connect() returned
    chPc,         \* position of the process that uses the connected object
    chLoaded,     \* `state` local of its running _persist_handle
    chArg,        \* `seconds` of the refresh_timeout call in progress on it
    ptClosed,     \* PTYSession._closed
    ptSock,       \* the exec socket of the session is open
    ptQueue,      \* PTYSession.output_queue, oldest chunk first
    ptPut,        \* every chunk read_output put on output_queue, in the order put
    ptYield,      \* every chunk stream_pty_output yielded, in the order yielded
    ptRd,         \* position of the reader thread in read_output
    ptTh,         \* position of PTYSession._stream_thread in stream_handler
    ptCs,         \* position of the caller's generator in stream_pty_output
    ptCl          \* position of the caller in close_pty_session

\* state of a timed adapter.run call
opsVars == <<runT, runStart>>

\* state of the playground and of the thread that uses it
pgVars == <<pgPool, pgAll, pgEntered, pgClosed, pgReg, pgPc, pgLeft, pgOut, pgArg,
           pgHeld, pgExit>>

\* state of a ProxyFacade.run / health call
pxVars == <<pxPc, pxCaller, pxT, pxFbs, pxNow, pxDeadline, pxPoll, pxReplies,
           pxBody, pxOut>>

\* state of a dynamic call proxy.<name>(...)
dtVars == <<dtCache, dtPc, dtUrl, dtOptions, dtMethod, dtReply, dtOut>>

\* state of a container backend and of the last call on its runtime object
rtVars == <<rtCont, rtBackend, rtCall, rtOut>>

\* state of the files facade of one sandbox
flVars == <<flCont, flPutTmp, flGetTmp, flLast, flOut>>

\* state of a watchdog process reading a store of any content
wiVars == <<wiDoc, wiCont, wiPc, wiOut>>

\* state of one PTY session of the Docker runtime
ptVars == <<ptClosed, ptSock, ptQueue, ptPut, ptYield, ptRd, ptTh, ptCs, ptCl>>

\* state of the facades and runtimes beside the sandbox lifecycle
sideVars == <<pxVars, dtVars, rtVars, flVars, wiVars, ptVars>>

\* state of a second object for a sandbox, obtained by lifecycle.connect()
chVars == <<chHandle, chPc, chLoaded, chArg>>

\* arguments of calls in progress, and the connected object
hdVars == <<refArg, chVars>>

extVars == <<sideVars, hdVars>>

vars == <<now, runtimeUp, containers, stateFile, fileTorn, fileOpen, scratch,
          volumes, pc, handle, closed, loaded, sdCalls, conn, raised, wd, wdSnap,
          wdEntry, opsVars, pgVars, extVars>>

\* ------------------------------------------------------------ data model
Max(a, b) == IF a >= b THEN a ELSE b
Min(a, b) == IF a <= b THEN a ELSE b

\* An absent key of the JSON document / an unset handle.
NoEntry == [cid |-> 0, created |-> 0, la |-> 0, D |-> 0]
Present(e) == e.cid # 0
EmptyDoc == [i \in Ids |-> NoEntry]

\* LocalHandle built in LocalDockerAdapter.create: created_at and
\* last_active_at are two readings of utcnow(), timeout_seconds is cfg.timeout.
NewHandle(s, t, d) == [cid |-> s, created |-> t, la |-> t, D |-> d]

\* the stamp taken from the creation time instead of the clock
TouchStale(h, t) == [h EXCEPT !.la = h.created]

\* h.last_active_at = datetime.utcnow()
Touch(h, t) == [h EXCEPT !.la = t]

\* the stamp set and timeout_seconds left as it was
RefreshedKeepsTimeout(h, t, d) == [h EXCEPT !.la = t]

\* h.timeout_seconds = seconds; h.last_active_at = datetime.utcnow()
Refreshed(h, t, d) == [h EXCEPT !.D = d, !.la = t]

\* state[h.id] = {...}  in _persist_handle
WithEntry(doc, s, h) == [doc EXCEPT ![s] = h]

\* state.pop(sandbox_id, None)
WithoutEntry(doc, s) == [doc EXCEPT ![s] = NoEntry]

\* a created_at / last_active_at value of an entry that fromisoformat rejects
\* (or a missing key)
BadStamp == 0 - 1

\* watchdog: the two stamps as main() reads them at clock reading t --
\* created_at falls back to utcnow(), last_active_at to created_at
Parsed(e, t) ==
    LET c == IF e.created = BadStamp THEN t ELSE e.created
    IN  [e EXCEPT !.created = c, !.la = IF e.la = BadStamp THEN c ELSE e.la]

\* watchdog: deadline and lifetime_deadline of an entry
IdleDeadline(e) == e.la + e.D
\* the lifetime rule without its 60 second floor
LifetimeDeadlineNoGrace(e) == e.created + e.D * 2
LifetimeDeadline(e) == e.created + Max(e.D * 2, e.D + LifetimeGrace)
Expired(e, t) == t >= IdleDeadline(e) \/ t >= LifetimeDeadline(e)

\* _load_state(): the document, {} when the file is missing or does not parse
\* (a truncated file does not parse; stateFile holds EmptyDoc while torn).
LoadState == stateFile

\* quixand.utils.fs.atomic_write_text: write a temporary file, rename it over
\* the target.  The rename installs a new inode: a writer that still holds
\* the old, truncated file open writes into the unlinked file.
AtomicWrite(doc) ==
    /\ stateFile' = doc
    /\ fileTorn' = FALSE
    /\ fileOpen' = {}

\* Path.write_text, first half: open(path, 'w') truncates the file in place.
OpenTruncate(s) ==
    /\ stateFile' = EmptyDoc
    /\ fileTorn' = TRUE
    /\ fileOpen' = fileOpen \cup {s}

\* Path.write_text, second half: write the text and close.  When the path was
\* renamed over in between, the text lands in the unlinked file.
WriteText(s, doc) ==
    IF s \in fileOpen
    THEN /\ stateFile' = doc
         /\ fileTorn' = FALSE
         /\ fileOpen' = fileOpen \ {s}
    ELSE UNCHANGED <<stateFile, fileTorn, fileOpen>>

\* ProxyFacade: no poll made yet
NoReply == 0 - 2
\* bodies: the path that answered (0: primary, i: i-th fallback) and the form
NoBody == [path |-> 0 - 1, form |-> "none"]
NoOut == [kind |-> "none", value |-> NoBody]

\* runtimes: no result of a call yet
NoInfo == [kind |-> "none", raw |-> "", state |-> "none"]

\* files: a path of a file system: nothing, a directory, or a regular file
Absent == [kind |-> "absent", data |-> <<>>]
Dir == [kind |-> "dir", data |-> <<>>]
File(b) == [kind |-> "file", data |-> b]

\* what the caller of the last files call got
NoCall == [op |-> "none", path |-> 0, mode |-> "none", kind |-> "none", data |-> <<>>]
NoWrite == [mode |-> "none", data |-> <<>>]

\* no refresh_timeout call in progress
NoArg == 0 - 1

\* watchdog input: the value stored under the sandbox id -- no key, a false
\* value ({} or null), a string, or an object with its fields in some form
NoItem == [kind |-> "absent", created |-> "missing", la |-> "missing",
           timeout |-> "missing", cid |-> "missing"]
\* state.json is missing or is not JSON
NoDoc == [form |-> "unreadable", entry |-> NoItem]
NoExit == [kind |-> "none", exc |-> "none"]

\* pc of the owner: "none" before Sandbox(...), "failed" when the constructor
\* raised, "fresh" once constructed with no call made yet, "idle" between
\* calls, "dead_fresh" killed while fresh, "dead" killed later.
Ready == {"fresh", "idle"}
SdPcs == {"sd_runtime", "sd_load", "sd_write", "sd_dirs"}
ReapPcs == {"reap", "reap_open", "reap_write"}
GonePcs == {"gone_open", "gone_write"}

Init ==
    /\ now = 0
    /\ runtimeUp = TRUE
    /\ containers = {}
    /\ stateFile = EmptyDoc
    /\ fileTorn = FALSE
    /\ fileOpen = {}
    /\ scratch = {}
    /\ volumes = {}
    /\ pc = [s \in Ids |-> "none"]
    /\ handle = [s \in Ids |-> NoEntry]
    /\ closed = [s \in Ids |-> FALSE]
    /\ loaded = [s \in Ids |-> EmptyDoc]
    /\ sdCalls = [s \in Ids |-> 0]
    /\ conn = 0
    /\ raised = FALSE
    /\ wd = [s \in Ids |-> "none"]
    /\ wdSnap = [s \in Ids |-> EmptyDoc]
    /\ wdEntry = [s \in Ids |-> NoEntry]
    /\ runT = [s \in Ids |-> 0]
    /\ runStart = [s \in Ids |-> 0]
    /\ pgPool = <<>>
    /\ pgAll = {}
    /\ pgEntered = FALSE
    /\ pgClosed = FALSE
    /\ pgReg = TRUE
    /\ pgPc = "idle"
    /\ pgLeft = 0
    /\ pgOut = 0
    /\ pgArg = 0
    /\ pgHeld = {}
    /\ pgExit = 0
    /\ pxPc = "idle"
    /\ pxCaller = "none"
    /\ pxT = 0
    /\ pxFbs = 0
    /\ pxNow = 0
    /\ pxDeadline = 0
    /\ pxPoll = NoReply
    /\ pxReplies = <<>>
    /\ pxBody = NoBody
    /\ pxOut = NoOut
    /\ dtCache = [u \in 1..NumUrls |-> "none"]
    /\ dtPc = "idle"
    /\ dtUrl = 0
    /\ dtOptions = 0
    /\ dtMethod = "none"
    /\ dtReply = <<>>
    /\ dtOut = "none"
    /\ rtCont = [c \in 1..NumContainers |-> "absent"]
    /\ rtBackend = "docker"
    /\ rtCall = "none"
    /\ rtOut = NoInfo
    /\ flCont = [f \in 0..NumFiles |-> IF f = 0 THEN Dir ELSE Absent]
    /\ flPutTmp = Absent
    /\ flGetTmp = Absent
    /\ flLast = [f \in 0..NumFiles |-> NoWrite]
    /\ flOut = NoCall
    /\ wiDoc = NoDoc
    /\ wiCont = FALSE
    /\ wiPc = "none"
    /\ wiOut = NoExit
    /\ refArg = [s \in Ids |-> NoArg]
    /\ chHandle = NoEntry
    /\ chPc = "none"
    /\ chLoaded = EmptyDoc
    /\ chArg = NoArg
    /\ ptClosed = FALSE
    /\ ptSock = TRUE
    /\ ptQueue = <<>>
    /\ ptPut = <<>>
    /\ ptYield = <<>>
    /\ ptRd = "test"
    /\ ptTh = "input"
    /\ ptCs = "none"
    /\ ptCl = "none"

\* ------------------------------------------------------------ environment
Tick ==
    /\ now < MaxTime
    /\ now' = now + 1
    /\ UNCHANGED <<runtimeUp, containers, stateFile, fileTorn, fileOpen, scratch,
                   volumes, pc, handle, closed, loaded, sdCalls, conn, raised, wd, wdSnap, wdEntry>>
    /\ UNCHANGED <<opsVars, pgVars, extVars>>

\* The daemon becomes unreachable / reachable again.
RuntimeFlip ==
    /\ runtimeUp' = ~runtimeUp
    /\ UNCHANGED <<now, containers, stateFile, fileTorn, fileOpen, scratch,
                   volumes, pc, handle, closed, loaded, sdCalls, conn, raised, wd, wdSnap, wdEntry>>
    /\ UNCHANGED <<opsVars, pgVars, extVars>>

\* --------------------------------------------- Sandbox(...) / adapter.create
\* _ensure_volume_dir, create_container, start_container, the handle, and the
\* read half of _persist_handle.  create_container/start_container raise when
\* the daemon does not answer: the constructor raises and no object exists.
Create(s, d) ==
    /\ pc[s] = "none"
    /\ volumes' = volumes \cup {s}
    /\ IF runtimeUp
       THEN /\ containers' = containers \cup {s}
            /\ handle' = [handle EXCEPT ![s] = NewHandle(s, now, d)]
            /\ loaded' = [loaded EXCEPT ![s] = WithEntry(LoadState, s, handle'[s])]
            /\ pc' = [pc EXCEPT ![s] = "create_write"]
       ELSE /\ pc' = [pc EXCEPT ![s] = "failed"]
            /\ UNCHANGED <<containers, handle, loaded>>
    /\ UNCHANGED <<now, runtimeUp, stateFile, fileTorn, fileOpen, scratch,
                   closed, sdCalls, conn, raised, wd, wdSnap, wdEntry>>
    /\ UNCHANGED <<opsVars, pgVars, extVars>>

\* the write half of _persist_handle in create, then subprocess.Popen of the
\* watchdog: skipped under QS_DISABLE_WATCHDOG, a failure to spawn is swallowed.
CreatePersist(s) ==
    /\ pc[s] = "create_write"
    /\ AtomicWrite(loaded[s])
    /\ loaded' = [loaded EXCEPT ![s] = EmptyDoc]
    /\ \E spawned \in BOOLEAN :
          wd' = [wd EXCEPT ![s] = IF spawned THEN "poll" ELSE "none"]
    /\ pc' = [pc EXCEPT ![s] = "fresh"]
    /\ UNCHANGED <<now, runtimeUp, containers, scratch, volumes, handle, closed,
                   sdCalls, conn, raised, wdSnap, wdEntry>>
    /\ UNCHANGED <<opsVars, pgVars, extVars>>

\* ------------------------------------------------ operations of the owner
\* adapter.run / fs_mkdir / fs_rm / fs_mv / fs_put / fs_get: a runtime call that
\* raises when the daemon does not answer or the container is gone (nothing
\* is written then); on success h.last_active_at = utcnow() and the read half
\* of _persist_handle.
Run(s) ==
    /\ pc[s] \in Ready
    /\ runtimeUp /\ s \in containers
    /\ handle' = [handle EXCEPT ![s] = Touch(handle[s], now)]
    /\ loaded' = [loaded EXCEPT ![s] = WithEntry(LoadState, s, handle'[s])]
    /\ pc' = [pc EXCEPT ![s] = "op_write"]
    /\ UNCHANGED <<now, runtimeUp, containers, stateFile, fileTorn, fileOpen,
                   scratch, volumes, closed, sdCalls, conn, raised, wd, wdSnap, wdEntry>>
    /\ UNCHANGED <<opsVars, pgVars, extVars>>

\* adapter.fs_write / fs_read: get_runtime raises when the daemon does not
\* answer and the call ends there; otherwise _scratch() makes the scratch
\* directory before the copy, and the copy raises when the container is gone.
FsWrite(s) ==
    /\ pc[s] \in Ready
    /\ scratch' = IF runtimeUp THEN scratch \cup {s} ELSE scratch
    /\ IF runtimeUp /\ s \in containers
       THEN /\ handle' = [handle EXCEPT ![s] = Touch(handle[s], now)]
            /\ loaded' = [loaded EXCEPT ![s] = WithEntry(LoadState, s, handle'[s])]
            /\ pc' = [pc EXCEPT ![s] = "op_write"]
       ELSE /\ pc' = [pc EXCEPT ![s] = "idle"]
            /\ UNCHANGED <<handle, loaded>>
    /\ UNCHANGED <<now, runtimeUp, containers, stateFile, fileTorn, fileOpen,
                   volumes, closed, sdCalls, conn, raised, wd, wdSnap, wdEntry>>
    /\ UNCHANGED <<opsVars, pgVars, extVars>>

\* adapter.refresh_timeout: no runtime call and no look at Sandbox._closed.
RefreshTimeout(s, d) ==
    /\ pc[s] \in Ready
    /\ handle' = [handle EXCEPT ![s] = Refreshed(handle[s], now, d)]
    /\ loaded' = [loaded EXCEPT ![s] = WithEntry(LoadState, s, handle'[s])]
    /\ pc' = [pc EXCEPT ![s] = "op_write"]
    /\ refArg' = [refArg EXCEPT ![s] = d]
    /\ UNCHANGED <<now, runtimeUp, containers, stateFile, fileTorn, fileOpen,
                   scratch, volumes, closed, sdCalls, conn, raised, wd, wdSnap, wdEntry>>
    /\ UNCHANGED <<opsVars, pgVars, sideVars, chVars>>

\* the write half of _persist_handle in an operation
PersistHandle(s) ==
    /\ pc[s] = "op_write"
    /\ AtomicWrite(loaded[s])
    /\ loaded' = [loaded EXCEPT ![s] = EmptyDoc]
    /\ refArg' = [refArg EXCEPT ![s] = NoArg]
    /\ pc' = [pc EXCEPT ![s] = "idle"]
    /\ UNCHANGED <<now, runtimeUp, containers, scratch, volumes, handle, closed,
                   sdCalls, conn, raised, wd, wdSnap, wdEntry>>
    /\ UNCHANGED <<opsVars, pgVars, sideVars, chVars>>

\* ------------------------------------------------------- Sandbox.shutdown
\* the guard left out: every call goes into adapter.shutdown
ShutdownGuardNever(s) == FALSE

\* `if self._closed: return`
ShutdownGuard(s) == closed[s]

\* A call on a closed object returns at once; a call on a live object
\* enters adapter.shutdown.
Shutdown(s) ==
    /\ pc[s] \in Ready
    /\ sdCalls[s] < MaxShutdownCalls
    /\ sdCalls' = [sdCalls EXCEPT ![s] = @ + 1]
    /\ pc' = [pc EXCEPT ![s] = IF ShutdownGuard(s) THEN "idle" ELSE "sd_runtime"]
    /\ UNCHANGED <<now, runtimeUp, containers, stateFile, fileTorn, fileOpen,
                   scratch, volumes, handle, closed, loaded, conn, raised, wd,
                   wdSnap, wdEntry>>
    /\ UNCHANGED <<opsVars, pgVars, extVars>>

\* adapter.shutdown: get_runtime, stop_container, remove_container.
\* get_runtime raises when the daemon does not answer; Sandbox.shutdown
\* swallows it, sets _closed and returns.  A backend APIError of stop/remove
\* is swallowed by the runtime and the container may stay.
ShutdownStop(s) ==
    /\ pc[s] = "sd_runtime"
    /\ IF runtimeUp
       THEN /\ \E ok \in BOOLEAN :
                  containers' = IF ok THEN containers \ {handle[s].cid} ELSE containers
            /\ pc' = [pc EXCEPT ![s] = "sd_load"]
            /\ UNCHANGED closed
       ELSE /\ pc' = [pc EXCEPT ![s] = "idle"]
            /\ closed' = [closed EXCEPT ![s] = TRUE]
            /\ UNCHANGED containers
    /\ UNCHANGED <<now, runtimeUp, stateFile, fileTorn, fileOpen, scratch,
                   volumes, handle, loaded, sdCalls, conn, raised, wd, wdSnap, wdEntry>>
    /\ UNCHANGED <<opsVars, pgVars, extVars>>

\* _remove_state: state = self._load_state(); state.pop(sandbox_id, None)
RemoveStateLoad(s) ==
    /\ pc[s] = "sd_load"
    /\ loaded' = [loaded EXCEPT ![s] = WithoutEntry(LoadState, s)]
    /\ pc' = [pc EXCEPT ![s] = "sd_write"]
    /\ UNCHANGED <<now, runtimeUp, containers, stateFile, fileTorn, fileOpen,
                   scratch, volumes, handle, closed, sdCalls, conn, raised, wd, wdSnap, wdEntry>>
    /\ UNCHANGED <<opsVars, pgVars, extVars>>

\* _remove_state: atomic_write_text of the popped document
RemoveState(s) ==
    /\ pc[s] = "sd_write"
    /\ AtomicWrite(loaded[s])
    /\ loaded' = [loaded EXCEPT ![s] = EmptyDoc]
    /\ pc' = [pc EXCEPT ![s] = "sd_dirs"]
    /\ UNCHANGED <<now, runtimeUp, containers, scratch, volumes, handle, closed,
                   sdCalls, conn, raised, wd, wdSnap, wdEntry>>
    /\ UNCHANGED <<opsVars, pgVars, extVars>>

\* _cleanup_host_dirs, then Sandbox.shutdown sets _closed and returns
CleanupHostDirs(s) ==
    /\ pc[s] = "sd_dirs"
    /\ scratch' = scratch \ {s}
    /\ volumes' = volumes \ {s}
    /\ closed' = [closed EXCEPT ![s] = TRUE]
    /\ pc' = [pc EXCEPT ![s] = "idle"]
    /\ UNCHANGED <<now, runtimeUp, containers, stateFile, fileTorn, fileOpen,
                   handle, loaded, sdCalls, conn, raised, wd, wdSnap, wdEntry>>
    /\ UNCHANGED <<opsVars, pgVars, extVars>>

\* The owning process is killed (at any point of its execution).
OwnerDies(s) ==
    /\ pc[s] \notin {"none", "failed", "dead", "dead_fresh"}
    /\ pc' = [pc EXCEPT ![s] = IF pc[s] = "fresh" THEN "dead_fresh" ELSE "dead"]
    /\ loaded' = [loaded EXCEPT ![s] = EmptyDoc]
    /\ refArg' = [refArg EXCEPT ![s] = NoArg]
    /\ UNCHANGED <<now, runtimeUp, containers, stateFile, fileTorn, fileOpen,
                   scratch, volumes, handle, closed, sdCalls, conn, raised, wd, wdSnap, wdEntry>>
    /\ UNCHANGED <<opsVars, pgVars, sideVars, chVars>>

\* ------------------------------------------------------ lifecycle.connect
\* connect(id): adapter.connect reads the entry (QSSandboxNotFound when it is
\* absent) and the Sandbox is built with object.__new__: _closed is never set.
Connect(s) ==
    /\ conn = 0
    /\ Present(LoadState[s])
    /\ conn' = s
    /\ UNCHANGED <<now, runtimeUp, containers, stateFile, fileTorn, fileOpen,
                   scratch, volumes, pc, handle, closed, loaded, sdCalls, raised, wd,
                   wdSnap, wdEntry>>
    /\ UNCHANGED <<opsVars, pgVars, extVars>>

\* Sandbox.shutdown() on the connected object: `if self._closed` reads an
\* attribute that does not exist, outside the try block: AttributeError.
\* The caller drops the object.
ConnShutdown ==
    /\ conn # 0
    /\ raised' = TRUE
    /\ conn' = 0
    /\ UNCHANGED <<now, runtimeUp, containers, stateFile, fileTorn, fileOpen,
                   scratch, volumes, pc, handle, closed, loaded, sdCalls, wd, wdSnap, wdEntry>>
    /\ UNCHANGED <<opsVars, pgVars, extVars>>

\* ------------------------------------------------------- watchdog.main
\* container_exists: True when the inspect succeeds, False when the container
\* is not found and on any other backend error.
ContainerExistsAnswers(cid) == {cid \in containers, FALSE}

\* One pass of the loop up to its first effect: read the state, leave when
\* the entry is absent, take the reap branch when a deadline passed,
\* otherwise ask the runtime whether the container exists.  get_runtime
\* returns None when the daemon does not answer (the check is skipped).
WdPoll(s) ==
    /\ wd[s] = "poll"
    /\ LET snap == LoadState
           entry == snap[s]
       IN  IF ~Present(entry)
           THEN /\ wd' = [wd EXCEPT ![s] = "exited"]
                /\ UNCHANGED <<wdSnap, wdEntry>>
           ELSE IF Expired(Parsed(entry, now), now)
           THEN /\ wd' = [wd EXCEPT ![s] = "reap"]
                /\ wdSnap' = [wdSnap EXCEPT ![s] = WithoutEntry(snap, s)]
                /\ wdEntry' = [wdEntry EXCEPT ![s] = entry]
           ELSE IF runtimeUp
           THEN \E answer \in ContainerExistsAnswers(entry.cid) :
                  IF answer
                  THEN /\ wd' = [wd EXCEPT ![s] = "sleep"]
                       /\ UNCHANGED <<wdSnap, wdEntry>>
                  ELSE /\ wd' = [wd EXCEPT ![s] = "gone_open"]
                       /\ wdSnap' = [wdSnap EXCEPT ![s] = WithoutEntry(snap, s)]
                       /\ UNCHANGED wdEntry
           ELSE /\ wd' = [wd EXCEPT ![s] = "sleep"]
                /\ UNCHANGED <<wdSnap, wdEntry>>
    /\ UNCHANGED <<now, runtimeUp, containers, stateFile, fileTorn, fileOpen,
                   scratch, volumes, pc, handle, closed, loaded, sdCalls, conn, raised>>
    /\ UNCHANGED <<opsVars, pgVars, extVars>>

\* reap branch: stop_container and remove_container when a runtime could be
\* built (every exception swallowed), then rmtree of scratch and volumes.
WdReap(s) ==
    /\ wd[s] = "reap"
    /\ IF runtimeUp
       THEN \E ok \in BOOLEAN :
              containers' = IF ok THEN containers \ {wdEntry[s].cid} ELSE containers
       ELSE UNCHANGED containers
    /\ scratch' = scratch \ {s}
    /\ volumes' = volumes \ {s}
    /\ wd' = [wd EXCEPT ![s] = "reap_open"]
    /\ wdEntry' = [wdEntry EXCEPT ![s] = NoEntry]
    /\ UNCHANGED <<now, runtimeUp, stateFile, fileTorn, fileOpen, pc, handle,
                   closed, loaded, sdCalls, conn, raised, wdSnap>>
    /\ UNCHANGED <<opsVars, pgVars, extVars>>

\* reap branch: state.pop(sbx_id); Config.state_file().write_text(...), the open
WdReapOpen(s) ==
    /\ wd[s] = "reap_open"
    /\ OpenTruncate(s)
    /\ wd' = [wd EXCEPT ![s] = "reap_write"]
    /\ UNCHANGED <<now, runtimeUp, containers, scratch, volumes, pc, handle,
                   closed, loaded, sdCalls, conn, raised, wdSnap, wdEntry>>
    /\ UNCHANGED <<opsVars, pgVars, extVars>>

\* reap branch: the write of the popped snapshot, return 0
WdReapWrite(s) ==
    /\ wd[s] = "reap_write"
    /\ WriteText(s, wdSnap[s])
    /\ wd' = [wd EXCEPT ![s] = "reaped"]
    /\ wdSnap' = [wdSnap EXCEPT ![s] = EmptyDoc]
    /\ UNCHANGED <<now, runtimeUp, containers, scratch, volumes, pc, handle,
                   closed, loaded, sdCalls, conn, raised, wdEntry>>
    /\ UNCHANGED <<opsVars, pgVars, extVars>>

\* container gone: state.pop(sbx_id); write_text(...), the open
WdGoneOpen(s) ==
    /\ wd[s] = "gone_open"
    /\ OpenTruncate(s)
    /\ wd' = [wd EXCEPT ![s] = "gone_write"]
    /\ UNCHANGED <<now, runtimeUp, containers, scratch, volumes, pc, handle,
                   closed, loaded, sdCalls, conn, raised, wdSnap, wdEntry>>
    /\ UNCHANGED <<opsVars, pgVars, extVars>>

\* container gone: the write, rmtree of scratch and volumes, return 0
WdGoneWrite(s) ==
    /\ wd[s] = "gone_write"
    /\ WriteText(s, wdSnap[s])
    /\ scratch' = scratch \ {s}
    /\ volumes' = volumes \ {s}
    /\ wd' = [wd EXCEPT ![s] = "exited"]
    /\ wdSnap' = [wdSnap EXCEPT ![s] = EmptyDoc]
    /\ UNCHANGED <<now, runtimeUp, containers, pc, handle, closed, loaded, sdCalls, conn,
                   raised, wdEntry>>
    /\ UNCHANGED <<opsVars, pgVars, extVars>>

\* time.sleep(1.0) is over
WdWake(s) ==
    /\ wd[s] = "sleep"
    /\ wd' = [wd EXCEPT ![s] = "poll"]
    /\ UNCHANGED <<now, runtimeUp, containers, stateFile, fileTorn, fileOpen,
                   scratch, volumes, pc, handle, closed, loaded, sdCalls, conn, raised,
                   wdSnap, wdEntry>>
    /\ UNCHANGED <<opsVars, pgVars, extVars>>

\* One sandbox with its owner, a connected object and its watchdog, with
\* every fault of the runtime.
Solo == {1}

Next ==
    \/ Tick
    \/ RuntimeFlip
    \/ \E s \in Solo, d \in Timeouts : Create(s, d)
    \/ \E s \in Solo : CreatePersist(s)
    \/ \E s \in Solo : Run(s)
    \/ \E s \in Solo : FsWrite(s)
    \/ \E s \in Solo, d \in Timeouts : RefreshTimeout(s, d)
    \/ \E s \in Solo : PersistHandle(s)
    \/ \E s \in Solo : Shutdown(s)
    \/ \E s \in Solo : ShutdownStop(s)
    \/ \E s \in Solo : RemoveStateLoad(s)
    \/ \E s \in Solo : RemoveState(s)
    \/ \E s \in Solo : CleanupHostDirs(s)
    \/ \E s \in Solo : OwnerDies(s)
    \/ \E s \in Solo : Connect(s)
    \/ ConnShutdown
    \/ \E s \in Solo : WdPoll(s)
    \/ \E s \in Solo : WdReap(s)
    \/ \E s \in Solo : WdReapOpen(s)
    \/ \E s \in Solo : WdReapWrite(s)
    \/ \E s \in Solo : WdGoneOpen(s)
    \/ \E s \in Solo : WdGoneWrite(s)
    \/ \E s \in Solo : WdWake(s)

Spec == Init /\ [][Next]_vars

\* Every sandbox id, each with its owner and its watchdog, sharing the state
\* file: the interleavings of their steps within one second of the clock,
\* with a timeout that is over at once (0) and one that is not (1).  The daemon
\* stays reachable.
NextStore ==
    \/ \E s \in StoreIds, d \in {0, 1} : Create(s, d)
    \/ \E s \in StoreIds : CreatePersist(s)
    \/ \E s \in StoreIds : Run(s)
    \/ \E s \in StoreIds : PersistHandle(s)
    \/ \E s \in StoreIds : Shutdown(s)
    \/ \E s \in StoreIds : ShutdownStop(s)
    \/ \E s \in StoreIds : RemoveStateLoad(s)
    \/ \E s \in StoreIds : RemoveState(s)
    \/ \E s \in StoreIds : CleanupHostDirs(s)
    \/ \E s \in StoreIds : WdPoll(s)
    \/ \E s \in StoreIds : WdReap(s)
    \/ \E s \in StoreIds : WdReapOpen(s)
    \/ \E s \in StoreIds : WdReapWrite(s)
    \/ \E s \in StoreIds : WdGoneOpen(s)
    \/ \E s \in StoreIds : WdGoneWrite(s)
    \/ \E s \in StoreIds : WdWake(s)

SpecStore == Init /\ [][NextStore]_vars

\* ------------------------------------------------------------ timed runs
\* time.sleep(1.0): the watchdog polls once a second.  The clock moves on
\* when the watchdog has finished its pass and sleeps, and wakes it.
TickTimed ==
    /\ now < MaxClock
    /\ \A s \in Solo : wd[s] = "sleep"
    /\ now' = now + 1
    /\ wd' = [s \in Ids |-> IF wd[s] = "sleep" THEN "poll" ELSE wd[s]]
    /\ UNCHANGED <<runtimeUp, containers, stateFile, fileTorn, fileOpen, scratch,
                   volumes, pc, handle, closed, loaded, sdCalls, conn, raised, wdSnap,
                   wdEntry>>
    /\ UNCHANGED <<opsVars, pgVars, extVars>>

\* A timeout on each side of the lifetime rule max(2 * t, t + 60).
TimedTimeouts == {1, LifetimeGrace + 1}

\* One sandbox whose owner keeps it busy (operations that update
\* last_active_at) while its watchdog polls once a second.
NextTimed ==
    \/ TickTimed
    \/ \E s \in Solo, d \in TimedTimeouts : Create(s, d)
    \/ \E s \in Solo : CreatePersist(s)
    \/ \E s \in Solo : Run(s)
    \/ \E s \in Solo : PersistHandle(s)
    \/ \E s \in Solo : WdPoll(s)
    \/ \E s \in Solo : WdReap(s)
    \/ \E s \in Solo : WdReapOpen(s)
    \/ \E s \in Solo : WdReapWrite(s)
    \/ \E s \in Solo : WdGoneOpen(s)
    \/ \E s \in Solo : WdGoneWrite(s)

SpecTimed == Init /\ [][NextTimed]_vars

\* ------------------------------------------- operations with their timing
\* run(cmd, timeout=t): t is any integer the caller passes
RunTimeouts == 0..MaxRunTimeout

\* exec_in_container: `if timeout:` -- the join with a timeout is used only
\* for a value that is true in Python; 0 takes the branch without a timeout.
TimeoutArmed(t) == t # 0

\* adapter.run up to the start of the exec: get_runtime and the container
\* lookup raise when the daemon does not answer or the container is gone.
RunCall(s, t) ==
    /\ pc[s] \in Ready
    /\ IF runtimeUp /\ s \in containers
       THEN /\ pc' = [pc EXCEPT ![s] = "run_exec"]
            /\ runT' = [runT EXCEPT ![s] = t]
            /\ runStart' = [runStart EXCEPT ![s] = now]
       ELSE /\ pc' = [pc EXCEPT ![s] = "idle"]
            /\ UNCHANGED <<runT, runStart>>
    /\ UNCHANGED <<now, runtimeUp, containers, stateFile, fileTorn, fileOpen,
                   scratch, volumes, handle, closed, loaded, sdCalls, conn,
                   raised, wd, wdSnap, wdEntry, pgVars, extVars>>

\* The command finishes and exec_in_container returns its result: with an
\* armed timeout only when thread.join(timeout) found the thread finished.
\* Then h.last_active_at = utcnow() and the read half of _persist_handle.
ExecDone(s) ==
    /\ pc[s] = "run_exec"
    /\ TimeoutArmed(runT[s]) => now <= runStart[s] + runT[s]
    /\ handle' = [handle EXCEPT ![s] = Touch(handle[s], now)]
    /\ loaded' = [loaded EXCEPT ![s] = WithEntry(LoadState, s, handle'[s])]
    /\ pc' = [pc EXCEPT ![s] = "op_write"]
    /\ runT' = [runT EXCEPT ![s] = 0]
    /\ runStart' = [runStart EXCEPT ![s] = 0]
    /\ UNCHANGED <<now, runtimeUp, containers, stateFile, fileTorn, fileOpen,
                   scratch, volumes, closed, sdCalls, conn, raised, wd, wdSnap,
                   wdEntry, pgVars, extVars>>

\* thread.join(timeout) returns with the thread alive: TimeoutError, which
\* adapter.run turns into QSTimeout.  The exec thread is abandoned.
ExecTimeout(s) ==
    /\ pc[s] = "run_exec"
    /\ TimeoutArmed(runT[s])
    /\ now >= runStart[s] + runT[s]
    /\ pc' = [pc EXCEPT ![s] = "idle"]
    /\ runT' = [runT EXCEPT ![s] = 0]
    /\ runStart' = [runStart EXCEPT ![s] = 0]
    /\ UNCHANGED <<now, runtimeUp, containers, stateFile, fileTorn, fileOpen,
                   scratch, volumes, handle, closed, loaded, sdCalls, conn,
                   raised, wd, wdSnap, wdEntry, pgVars, extVars>>

\* adapter.fs_ls: the exec of `ls` succeeded and the listing is parsed
FsLs(s) ==
    /\ pc[s] \in Ready
    /\ runtimeUp /\ s \in containers
    /\ pc' = [pc EXCEPT ![s] = "ls_ret"]
    /\ UNCHANGED <<now, runtimeUp, containers, stateFile, fileTorn, fileOpen,
                   scratch, volumes, handle, closed, loaded, sdCalls, conn,
                   raised, wd, wdSnap, wdEntry, opsVars, pgVars, extVars>>

\* adapter.fs_ls: return files
FsLsReturn(s) ==
    /\ pc[s] = "ls_ret"
    /\ pc' = [pc EXCEPT ![s] = "idle"]
    /\ UNCHANGED <<now, runtimeUp, containers, stateFile, fileTorn, fileOpen,
                   scratch, volumes, handle, closed, loaded, sdCalls, conn,
                   raised, wd, wdSnap, wdEntry, opsVars, pgVars, extVars>>

\* The clock moves on.  A join with a timeout returns when the timeout is
\* over: the clock does not pass the end of an armed timeout while the
\* caller is still inside the join.
TickOps ==
    /\ now < MaxOpsClock
    /\ \A s \in Solo :
          (pc[s] = "run_exec" /\ TimeoutArmed(runT[s]))
              => now < runStart[s] + runT[s]
    /\ now' = now + 1
    /\ UNCHANGED <<runtimeUp, containers, stateFile, fileTorn, fileOpen, scratch,
                   volumes, pc, handle, closed, loaded, sdCalls, conn, raised, wd,
                   wdSnap, wdEntry, opsVars, pgVars, extVars>>

\* One sandbox and the operations of its owner, with the time they take.
NextOps ==
    \/ TickOps
    \/ RuntimeFlip
    \/ \E s \in Solo, d \in Timeouts : Create(s, d)
    \/ \E s \in Solo : CreatePersist(s)
    \/ \E s \in Solo, t \in RunTimeouts : RunCall(s, t)
    \/ \E s \in Solo : ExecDone(s)
    \/ \E s \in Solo : ExecTimeout(s)
    \/ \E s \in Solo : FsWrite(s)
    \/ \E s \in Solo : FsLs(s)
    \/ \E s \in Solo : FsLsReturn(s)
    \/ \E s \in Solo : PersistHandle(s)

SpecOps == Init /\ [][NextOps]_vars

\* ------------------------------------------------------------- Playground
\* One Playground(n = PoolSize) used by one thread.  Its sandboxes are built
\* with QS_DISABLE_WATCHDOG set; each Sandbox(...) and each sbx.shutdown() it
\* makes is taken in one step.
PgTimeout == 1

\* variables of the sandboxes that the playground's calls change
sbxVars == <<containers, handle, stateFile, fileTorn, fileOpen, scratch, volumes,
             pc, closed>>

\* variables no playground call changes
restVars == <<now, runtimeUp, loaded, sdCalls, conn, raised, wd, wdSnap, wdEntry,
              opsVars, extVars>>

\* ids no Sandbox(...) has used yet, and the one the next uuid4() stands for
FreshIds == {s \in Ids : pc[s] = "none"}
NextId == CHOOSE s \in FreshIds : \A o \in FreshIds : s <= o

\* Sandbox(...) returns: adapter.create with its _persist_handle
SandboxNew(s) ==
    /\ volumes' = volumes \cup {s}
    /\ containers' = containers \cup {s}
    /\ handle' = [handle EXCEPT ![s] = NewHandle(s, now, PgTimeout)]
    /\ AtomicWrite(WithEntry(LoadState, s, handle'[s]))
    /\ pc' = [pc EXCEPT ![s] = "fresh"]
    /\ UNCHANGED <<scratch, closed>>

\* Sandbox(...) raises: the daemon does not answer in create_container
SandboxNewFails(s) ==
    /\ volumes' = volumes \cup {s}
    /\ pc' = [pc EXCEPT ![s] = "failed"]
    /\ UNCHANGED <<containers, handle, stateFile, fileTorn, fileOpen, scratch,
                   closed>>

\* sbx.shutdown() for each sandbox of S, one after the other: nothing for a
\* closed one; for the others adapter.shutdown with stop and remove carried
\* out or, with the daemon unreachable, only _closed is set.
SandboxShutdownAll(S) ==
    LET live == {s \in S : ~closed[s]}
    IN  /\ closed' = [s \in Ids |-> closed[s] \/ s \in live]
        /\ pc' = [s \in Ids |-> IF s \in live THEN "idle" ELSE pc[s]]
        /\ IF runtimeUp /\ live # {}
           THEN /\ containers' = containers \ live
                /\ AtomicWrite([s \in Ids |->
                                  IF s \in live THEN NoEntry ELSE LoadState[s]])
                /\ scratch' = scratch \ live
                /\ volumes' = volumes \ live
           ELSE UNCHANGED <<containers, stateFile, fileTorn, fileOpen, scratch,
                            volumes>>
        /\ UNCHANGED handle

\* LifoQueue: get_nowait takes the item put last
PoolTopFifo(q) == q[1]

PoolTop(q) == q[Len(q)]
PoolPop(q) == SubSeq(q, 1, Len(q) - 1)

\* the thread holds Playground._lock
PgLocked == pgPc \in {"enter", "create_enter", "release", "cleanup"}

\* __enter__ / prewarm(): `with self._lock`; returns at once when _entered
\* is set (nothing changes then), otherwise starts the loop of n sandboxes.
PgEnter ==
    /\ pgPc = "idle"
    /\ ~pgEntered
    /\ Cardinality(FreshIds) >= PoolSize
    /\ pgPc' = "enter"
    /\ pgLeft' = PoolSize
    /\ UNCHANGED <<pgPool, pgAll, pgEntered, pgClosed, pgReg, pgOut, pgArg, pgHeld, pgExit,
                   sbxVars, restVars>>

\* one iteration of the prewarm loop: Sandbox(...), _all.append, _pool.put.
\* A constructor that raises ends __enter__ (the lock is released, _entered
\* stays unset); put() on a full pool blocks, with the lock held.
PgPrewarmOne ==
    /\ pgPc \in {"enter", "create_enter"}
    /\ pgLeft > 0
    /\ FreshIds # {}
    /\ IF runtimeUp
       THEN /\ SandboxNew(NextId)
            /\ pgAll' = pgAll \cup {NextId}
            /\ IF Len(pgPool) < PoolSize
               THEN /\ pgPool' = Append(pgPool, NextId)
                    /\ pgLeft' = pgLeft - 1
                    /\ UNCHANGED pgPc
               ELSE /\ pgPc' = "put_blocked"
                    /\ UNCHANGED <<pgPool, pgLeft>>
       ELSE /\ SandboxNewFails(NextId)
            /\ pgPc' = "idle"
            /\ pgLeft' = 0
            /\ UNCHANGED <<pgAll, pgPool>>
    /\ UNCHANGED <<pgEntered, pgClosed, pgReg, pgOut, pgArg, pgHeld, pgExit, restVars>>

\* the loop is over: _entered = True, the lock is released
PgEnterDone ==
    /\ pgPc = "enter"
    /\ pgLeft = 0
    /\ pgEntered' = TRUE
    /\ pgPc' = "idle"
    /\ UNCHANGED <<pgPool, pgAll, pgClosed, pgReg, pgLeft, pgOut, pgArg, pgHeld, pgExit,
                   sbxVars, restVars>>

\* create(): `if not self._entered and not self._closed: self.__enter__()`
PgCreateLazy ==
    /\ pgPc = "idle"
    /\ ~pgEntered /\ ~pgClosed
    /\ Cardinality(FreshIds) >= PoolSize
    /\ pgPc' = "create_enter"
    /\ pgLeft' = PoolSize
    /\ UNCHANGED <<pgPool, pgAll, pgEntered, pgClosed, pgReg, pgOut, pgArg, pgHeld, pgExit,
                   sbxVars, restVars>>

\* create(): sbx = self._pool.get_nowait(); return sbx
\* (directly, or after the prewarm that create() started)
PgCreateGet ==
    /\ \/ pgPc = "idle" /\ (pgEntered \/ pgClosed)
       \/ pgPc = "create_enter" /\ pgLeft = 0
    /\ pgPool # <<>>
    /\ pgOut' = PoolTop(pgPool)
    /\ pgHeld' = pgHeld \cup {pgOut'}
    /\ pgPool' = PoolPop(pgPool)
    /\ pgEntered' = (pgEntered \/ pgPc = "create_enter")
    /\ pgPc' = "idle"
    /\ UNCHANGED <<pgAll, pgClosed, pgReg, pgLeft, pgArg, pgExit, sbxVars,
                   restVars>>

\* create(): the pool is empty: Sandbox(...) on demand, tracked in _all
PgCreateOnDemand ==
    /\ pgPc = "idle" /\ (pgEntered \/ pgClosed)
    /\ pgPool = <<>>
    /\ FreshIds # {}
    /\ IF runtimeUp
       THEN /\ SandboxNew(NextId)
            /\ pgAll' = pgAll \cup {NextId}
            /\ pgOut' = NextId
            /\ pgHeld' = pgHeld \cup {NextId}
       ELSE /\ SandboxNewFails(NextId)
            /\ UNCHANGED <<pgAll, pgOut, pgHeld>>
    /\ UNCHANGED <<pgPool, pgEntered, pgClosed, pgReg, pgPc, pgLeft, pgArg, pgExit,
                   restVars>>

\* release(sbx), the call: `with self._lock`.  The caller passes a sandbox
\* that create() returned to it, however often.
PgReleaseCall(s) ==
    /\ pgPc = "idle"
    /\ s \in pgHeld
    /\ pgPc' = "release"
    /\ pgArg' = s
    /\ UNCHANGED <<pgPool, pgAll, pgEntered, pgClosed, pgReg, pgLeft, pgOut, pgHeld,
                   pgExit, sbxVars, restVars>>

\* the tracked test left out of release
ReleaseAcceptsAny(s) == Len(pgPool) < PoolSize

\* release: `if sbx not in self._all: return`, then put_nowait, whose Full
\* (pool at maxsize n) is swallowed
ReleaseAccepts(s) == s \in pgAll /\ Len(pgPool) < PoolSize

\* release(sbx), the body
PgReleaseBody ==
    /\ pgPc = "release"
    /\ pgPool' = IF ReleaseAccepts(pgArg) THEN Append(pgPool, pgArg) ELSE pgPool
    /\ pgPc' = "idle"
    /\ pgArg' = 0
    /\ UNCHANGED <<pgAll, pgEntered, pgClosed, pgReg, pgLeft, pgOut, pgHeld, pgExit,
                   sbxVars, restVars>>

\* The caller shuts down a sandbox it holds (as src/test.py does).
PgCallerShutdown(s) ==
    /\ pgPc = "idle"
    /\ s \in pgHeld
    /\ SandboxShutdownAll({s})
    /\ UNCHANGED <<pgVars, restVars>>

\* only the sandboxes waiting in the pool are shut down
CleanupTargetsPooled == {pgPool[i] : i \in 1..Len(pgPool)}

\* _cleanup: `for sbx in self._all`
CleanupTargets == pgAll

\* _cleanup under the lock: nothing when _closed is set; otherwise shutdown
\* of every tracked sandbox, _all.clear(), the pool drained, _entered unset,
\* _closed set, the playground discarded from _ACTIVE_PLAYGROUNDS.
CleanupBody ==
    IF pgClosed
    THEN UNCHANGED <<pgPool, pgAll, pgEntered, pgClosed, pgReg, sbxVars>>
    ELSE /\ SandboxShutdownAll(CleanupTargets)
         /\ pgAll' = {}
         /\ pgPool' = <<>>
         /\ pgEntered' = FALSE
         /\ pgClosed' = TRUE
         /\ pgReg' = FALSE

\* close() / __exit__: _cleanup takes the lock
PgCleanupLock ==
    /\ pgPc = "idle"
    /\ pgPc' = "cleanup"
    /\ UNCHANGED <<pgPool, pgAll, pgEntered, pgClosed, pgReg, pgLeft, pgOut, pgArg,
                   pgHeld, pgExit, sbxVars, restVars>>

\* close() / __exit__: the body of _cleanup, the lock is released
PgCleanup ==
    /\ pgPc = "cleanup"
    /\ CleanupBody
    /\ pgPc' = "idle"
    /\ UNCHANGED <<pgLeft, pgOut, pgArg, pgHeld, pgExit, restVars>>

\* SIGINT / SIGTERM: the handler _h runs in the thread that uses the
\* playground, between two of its steps.  _global_cleanup calls _cleanup of
\* every registered playground: `with self._lock` never returns when the
\* interrupted code holds the lock (threading.Lock is not reentrant).
\* Otherwise the previous handler is called: for SIGTERM SystemExit(143) is
\* raised; for SIGINT the default handler raises KeyboardInterrupt.  Either
\* ends the thread.
Signals == {"INT", "TERM"}

Signal(sig) ==
    /\ pgPc \notin {"put_blocked", "sig_blocked", "exited"}
    /\ IF pgReg /\ PgLocked
       THEN /\ pgPc' = "sig_blocked"
            /\ UNCHANGED <<pgPool, pgAll, pgEntered, pgClosed, pgReg, pgLeft,
                           pgArg, pgHeld, pgExit, sbxVars>>
       ELSE /\ IF pgReg
               THEN CleanupBody
               ELSE UNCHANGED <<pgPool, pgAll, pgEntered, pgClosed, pgReg, sbxVars>>
            /\ pgLeft' = 0
            /\ pgArg' = 0
            /\ pgPc' = "exited"
            /\ pgExit' = IF sig = "TERM" THEN SigTermStatus ELSE pgExit
    /\ UNCHANGED <<pgOut, pgHeld, restVars>>

\* interpreter exit: atexit runs _global_cleanup
AtExit ==
    /\ pgPc = "idle"
    /\ IF pgReg
       THEN CleanupBody
       ELSE UNCHANGED <<pgPool, pgAll, pgEntered, pgClosed, pgReg, sbxVars>>
    /\ pgPc' = "exited"
    /\ UNCHANGED <<pgLeft, pgOut, pgArg, pgHeld, pgExit, restVars>>

NextPlay ==
    \/ RuntimeFlip
    \/ PgEnter
    \/ PgPrewarmOne
    \/ PgEnterDone
    \/ PgCreateLazy
    \/ PgCreateGet
    \/ PgCreateOnDemand
    \/ \E s \in Ids : PgReleaseCall(s)
    \/ PgReleaseBody
    \/ \E s \in Ids : PgCallerShutdown(s)
    \/ PgCleanupLock
    \/ PgCleanup
    \/ \E sig \in Signals : Signal(sig)
    \/ AtExit

SpecPlay == Init /\ [][NextPlay]_vars

\* ------------------------------------------------------------ ProxyFacade
\* health(): _make_request(..., timeout=5)                      proxy.py:105
PollTimeout == 5
\* health(): time.sleep(1)                                      proxy.py:110
PollSleep == 1
\* run(): self.health(port=port, timeout=min(timeout, 30))      proxy.py:131
HealthCap == 30
\* _make_request raised instead of returning (status, body)
ExcReply == 0 - 1

\* every variable outside the proxy call
nonPxVars == <<now, runtimeUp, containers, stateFile, fileTorn, fileOpen, scratch,
               volumes, pc, handle, closed, loaded, sdCalls, conn, raised, wd,
               wdSnap, wdEntry, opsVars, pgVars, dtVars, rtVars, flVars,
               wiVars,
               hdVars, ptVars>>

\* `timeout` of run() and of health(): below, at and above the cap of 30
ProxyTimeouts == (0..MaxProxyTimeout) \cup {HealthCap + 1}
\* HTTP statuses a request can be answered with: the edges of 200..299, 404
\* and another client error
ReplyStatuses == {199, 200, 299, 300, 403, 404}
\* what one poll of /health gives: a status, or an exception of _make_request
PollReplies == {200, 204, 404, ExcReply}
\* a body that is empty, that parses as JSON, that does not
BodyForms == {"empty", "json", "text"}


\* `json.loads(body) if body else None`, and the raw body when loads raises
Decoded(b) ==
    [b EXCEPT !.form = CASE b.form = "empty" -> "None"
                         [] b.form = "json" -> "parsed"
                         [] OTHER -> "raw"]

\* health: any 2xx status taken as ready
HealthReadyAny2xx(st) == st \in 200..299

\* health: `if status == 200: return`
HealthReady(st) == st = 200

\* run: the fallback loop is entered on any client error
FallbackWantedAny4xx(st) == st \in 400..499

\* run: `if status == 404 and fallback_paths`, `if status != 404: break`
FallbackWanted(st) == st = 404

\* run: `if status < 200 or status >= 300`
StatusOk(st) == ~(st < 200 \/ st >= 300)

\* time one request takes: sbx.run(cmd, timeout=timeout) with curl --max-time;
\* both are left out for a value that is false in Python (0)
CallDurations(t) == IF TimeoutArmed(t) THEN {0, t} ELSE {0, MaxCallTime}

\* proxy.run(timeout=T, ensure_ready=ensure, fallback_paths=<k paths>)
PxRun(T, k, ensure) ==
    /\ pxPc = "idle"
    /\ pxCaller' = "run"
    /\ pxT' = T
    /\ pxFbs' = k
    /\ pxDeadline' = IF ensure THEN pxNow + Min(T, HealthCap) ELSE 0
    /\ pxPc' = IF ensure THEN "health_test" ELSE "primary"
    /\ UNCHANGED <<pxNow, pxPoll, pxReplies, pxBody, pxOut, nonPxVars>>

\* proxy.health(timeout=t)
PxHealth(t) ==
    /\ pxPc = "idle"
    /\ pxCaller' = "health"
    /\ pxT' = t
    /\ pxDeadline' = pxNow + t
    /\ pxPc' = "health_test"
    /\ UNCHANGED <<pxFbs, pxNow, pxPoll, pxReplies, pxBody, pxOut, nonPxVars>>

\* health: `while time.time() < deadline`, and the raise after the loop
HealthTest ==
    /\ pxPc = "health_test"
    /\ IF pxNow < pxDeadline
       THEN /\ pxPc' = "health_poll"
            /\ UNCHANGED pxOut
       ELSE /\ pxPc' = "done"
            /\ pxOut' = [kind |-> "ProxyError", value |-> NoBody]
    /\ UNCHANGED <<pxCaller, pxT, pxFbs, pxNow, pxDeadline, pxPoll, pxReplies,
                   pxBody, nonPxVars>>

\* health: one _make_request of /health; return on 200 (run goes on with
\* the primary request), otherwise -- exception or other status -- sleep
HealthPoll ==
    /\ pxPc = "health_poll"
    /\ \E o \in PollReplies, d \in CallDurations(PollTimeout) :
         /\ pxNow' = pxNow + d
         /\ pxPoll' = o
         /\ IF HealthReady(o)
            THEN IF pxCaller = "health"
                 THEN /\ pxPc' = "done"
                      /\ pxOut' = [kind |-> "return", value |-> NoBody]
                 ELSE /\ pxPc' = "primary"
                      /\ UNCHANGED pxOut
            ELSE /\ pxPc' = "health_sleep"
                 /\ UNCHANGED pxOut
    /\ UNCHANGED <<pxCaller, pxT, pxFbs, pxDeadline, pxReplies, pxBody, nonPxVars>>

\* health: time.sleep(1)
HealthSleep ==
    /\ pxPc = "health_sleep"
    /\ pxNow' = pxNow + PollSleep
    /\ pxPc' = "health_test"
    /\ UNCHANGED <<pxCaller, pxT, pxFbs, pxDeadline, pxPoll, pxReplies, pxBody,
                   pxOut, nonPxVars>>

\* run: the request of the primary path.  _make_request raises (QSTimeout,
\* no status marker in the output) or returns (status, body).
PxPrimary ==
    /\ pxPc = "primary"
    /\ \E d \in CallDurations(pxT) :
         /\ pxNow' = pxNow + d
         /\ \/ /\ pxPc' = "done"
               /\ pxOut' = [kind |-> "raised", value |-> NoBody]
               /\ UNCHANGED <<pxReplies, pxBody>>
            \/ \E st \in ReplyStatuses, f \in BodyForms :
                 /\ pxReplies' = <<[path |-> 0, status |-> st]>>
                 /\ pxBody' = [path |-> 0, form |-> f]
                 /\ pxPc' = IF FallbackWanted(st) /\ pxFbs > 0
                            THEN "fallback" ELSE "finish"
                 /\ UNCHANGED pxOut
    /\ UNCHANGED <<pxCaller, pxT, pxFbs, pxDeadline, pxPoll, nonPxVars>>

\* run: one iteration of `for fp in fallback_paths`
PxFallback ==
    /\ pxPc = "fallback"
    /\ LET i == Len(pxReplies)
       IN  \E d \in CallDurations(pxT) :
             /\ pxNow' = pxNow + d
             /\ \/ /\ pxPc' = "done"
                   /\ pxOut' = [kind |-> "raised", value |-> NoBody]
                   /\ UNCHANGED <<pxReplies, pxBody>>
                \/ \E st \in ReplyStatuses, f \in BodyForms :
                     /\ pxReplies' = Append(pxReplies, [path |-> i, status |-> st])
                     /\ pxBody' = [path |-> i, form |-> f]
                     /\ pxPc' = IF FallbackWanted(st) /\ i < pxFbs
                                THEN "fallback" ELSE "finish"
                     /\ UNCHANGED pxOut
    /\ UNCHANGED <<pxCaller, pxT, pxFbs, pxDeadline, pxPoll, nonPxVars>>

\* run: the status test, the JSON decoding and the return
PxFinish ==
    /\ pxPc = "finish"
    /\ pxOut' = IF StatusOk(pxReplies[Len(pxReplies)].status)
                THEN [kind |-> "return", value |-> Decoded(pxBody)]
                ELSE [kind |-> "ProxyError", value |-> NoBody]
    /\ pxPc' = "done"
    /\ UNCHANGED <<pxCaller, pxT, pxFbs, pxNow, pxDeadline, pxPoll, pxReplies,
                   pxBody, nonPxVars>>

\* One call of proxy.run or proxy.health on a sandbox whose container runs.
NextProxy ==
    \/ \E T \in ProxyTimeouts, k \in 0..MaxFallbacks, e \in BOOLEAN : PxRun(T, k, e)
    \/ \E t \in ProxyTimeouts : PxHealth(t)
    \/ HealthTest
    \/ HealthPoll
    \/ HealthSleep
    \/ PxPrimary
    \/ PxFallback
    \/ PxFinish

SpecProxy == Init /\ [][NextProxy]_vars

\* ------------------------------------- ProxyFacade: dynamic method discovery
\* URLs of dynamic calls: f"http://localhost:{port}/{name}"
Urls == 1..NumUrls
\* a line of the OPTIONS reply printed by `curl -i`, lower-cased: the text
\* before its first colon, and the method names that occur in the line
LineNames == {"allow", "x-disallow", "content-type"}
LineMethods == {{}, {"GET"}, {"GET", "PUT"}, {"POST", "GET", "PUT"}, {"DELETE"}}
ReplyLines == [name : LineNames, methods : LineMethods]
\* replies of up to MaxLines lines
OptionsReplies == UNION {[1..n -> ReplyLines] : n \in 0..MaxLines}

\* `"allow:" in line`: true of every line in which the text allow: occurs
HasAllowColon(line) == line.name \in {"allow", "x-disallow"}

\* the first line of body.lower().splitlines() with allow: in it, 0 for none
AllowLine(reply) ==
    IF \E j \in 1..Len(reply) : HasAllowColon(reply[j])
    THEN CHOOSE j \in 1..Len(reply) :
            /\ HasAllowColon(reply[j])
            /\ \A i \in 1..(j - 1) : ~HasAllowColon(reply[i])
    ELSE 0

\* `if "POST" in allow_header ... elif "GET" ... elif "PUT"`
MethodOf(ms) ==
    IF "POST" \in ms THEN "POST"
    ELSE IF "GET" \in ms THEN "GET"
    ELSE IF "PUT" \in ms THEN "PUT"
    ELSE "none"

\* _detect_method after the OPTIONS request: the method, "none" when one of
\* the two assert statements fails
Detected(reply) ==
    IF AllowLine(reply) = 0 THEN "none"
    ELSE MethodOf(reply[AllowLine(reply)].methods)

\* every variable outside the dynamic call
nonDtVars == <<now, runtimeUp, containers, stateFile, fileTorn, fileOpen, scratch,
               volumes, pc, handle, closed, loaded, sdCalls, conn, raised, wd,
               wdSnap, wdEntry, opsVars, pgVars, pxVars, rtVars, flVars,
               wiVars,
               hdVars, ptVars>>

\* proxy.<name>(_ensure_ready=False, ...): _detect_method returns the cached
\* method of the URL, or goes on to the OPTIONS request
DynCall(u) ==
    /\ dtPc = "idle"
    /\ dtUrl' = u
    /\ dtOptions' = 0
    /\ dtReply' = <<>>
    /\ dtOut' = "none"
    /\ IF dtCache[u] # "none"
       THEN /\ dtMethod' = dtCache[u]
            /\ dtPc' = "request"
       ELSE /\ dtMethod' = "none"
            /\ dtPc' = "options"
    /\ UNCHANGED <<dtCache, nonDtVars>>

\* _detect_method: the OPTIONS request, the search of the Allow line, the
\* choice of the method and the cache entry
DynOptions ==
    /\ dtPc = "options"
    /\ \E reply \in OptionsReplies :
         /\ dtReply' = reply
         /\ dtOptions' = dtOptions + 1
         /\ IF Detected(reply) = "none"
            THEN /\ dtOut' = "AssertionError"
                 /\ dtPc' = "done"
                 /\ UNCHANGED <<dtCache, dtMethod>>
            ELSE /\ dtCache' = [dtCache EXCEPT ![dtUrl] = Detected(reply)]
                 /\ dtMethod' = Detected(reply)
                 /\ dtPc' = "request"
                 /\ UNCHANGED dtOut
    /\ UNCHANGED <<dtUrl, nonDtVars>>

\* the request with the method found, and the status test
DynRequest ==
    /\ dtPc = "request"
    /\ \E st \in ReplyStatuses :
         dtOut' = IF StatusOk(st) THEN "return" ELSE "ProxyError"
    /\ dtPc' = "done"
    /\ UNCHANGED <<dtCache, dtUrl, dtOptions, dtMethod, dtReply, nonDtVars>>

\* the caller has the result
DynReturn ==
    /\ dtPc = "done"
    /\ dtPc' = "idle"
    /\ UNCHANGED <<dtCache, dtUrl, dtOptions, dtMethod, dtReply, dtOut, nonDtVars>>

\* Dynamic calls on one ProxyFacade, one after the other.
NextDetect ==
    \/ \E u \in Urls : DynCall(u)
    \/ DynOptions
    \/ DynRequest
    \/ DynReturn

SpecDetect == Init /\ [][NextDetect]_vars

\* ------------------------------------- container runtimes (Docker, Podman)
Backends == {"docker", "podman"}
\* containers known to the backend
RtIds == 1..NumContainers
\* State.Status strings an inspect can carry: those of the two backends, one
\* no table lists, the empty string, and two spelled with capitals
RawStatuses == {"created", "running", "restarting", "paused", "stopped", "exited",
                "dead", "removing", "configured", "", "Running", "EXITED"}
\* how a backend call fails: not at all, with an APIError of the daemon, or
\* with an error of the connection to the daemon
Faults == {"none", "api", "conn"}

\* str.lower() on the status strings above
Lower(st) ==
    CASE st = "Running" -> "running"
      [] st = "EXITED" -> "exited"
      [] OTHER -> st

\* state_map.get(state_str, ContainerState.ERROR) with the map of Docker
\* used for both backends
StateOfOneTable(b, st) ==
    CASE st = "created" -> "Created"
      [] st = "running" -> "Running"
      [] st = "restarting" -> "Running"
      [] st = "paused" -> "Paused"
      [] st = "exited" -> "Exited"
      [] st = "dead" -> "Dead"
      [] st = "removing" -> "Removing"
      [] OTHER -> "Error"

\* state_map.get(state_str, ContainerState.ERROR) in get_container_info of
\* DockerRuntime and of PodmanRuntime
StateOf(b, st) ==
    CASE st = "created" -> "Created"
      [] st = "running" -> "Running"
      [] st = "restarting" /\ b = "docker" -> "Running"
      [] st = "paused" -> "Paused"
      [] st = "stopped" /\ b = "podman" -> "Stopped"
      [] st = "exited" -> "Exited"
      [] st = "dead" -> "Dead"
      [] st = "removing" -> "Removing"
      [] OTHER -> "Error"

\* the except clauses of stop_container: NotFound and APIError are swallowed
\* by both; PodmanRuntime swallows every Exception, DockerRuntime lets an
\* error that is not an APIError through
StopRaises(b, fault) == b = "docker" /\ fault = "conn"

\* the except clauses of remove_container: as for stop, but an error other
\* than NotFound is swallowed only `if force`, else RuntimeError is raised
RemoveRaises(b, fault, force) ==
    \/ b = "docker" /\ fault = "conn"
    \/ fault # "none" /\ ~force

\* the daemon refuses to remove a running or paused container without force
RemoveRefused(st, force) == ~force /\ Lower(st) \in {"running", "restarting", "paused"}

\* every variable outside the runtime calls
nonRtVars == <<now, runtimeUp, containers, stateFile, fileTorn, fileOpen, scratch,
               volumes, pc, handle, closed, loaded, sdCalls, conn, raised, wd,
               wdSnap, wdEntry, opsVars, pgVars, pxVars, dtVars, flVars,
               wiVars,
               hdVars, ptVars>>

\* The backend creates a container or moves it to another status.
BackendSets(c, st) ==
    /\ rtCont[c] # st
    /\ rtCont' = [rtCont EXCEPT ![c] = st]
    /\ UNCHANGED <<rtBackend, rtCall, rtOut, nonRtVars>>

\* runtime.stop_container(c)
StopContainer(b, c, fault) ==
    /\ rtBackend' = b
    /\ rtCall' = "stop"
    /\ IF rtCont[c] = "absent"
       THEN /\ rtOut' = [NoInfo EXCEPT !.kind = "returned"]
            /\ UNCHANGED rtCont
       ELSE IF fault = "none"
       THEN /\ rtOut' = [NoInfo EXCEPT !.kind = "returned"]
            /\ rtCont' = [rtCont EXCEPT ![c] = "exited"]
       ELSE /\ rtOut' = [NoInfo EXCEPT !.kind =
                            IF StopRaises(b, fault) THEN "raised" ELSE "returned"]
            /\ UNCHANGED rtCont
    /\ UNCHANGED nonRtVars

\* runtime.remove_container(c, force)
RemoveContainer(b, c, force, fault) ==
    /\ rtBackend' = b
    /\ rtCall' = "remove"
    /\ LET f == IF fault = "none" /\ rtCont[c] # "absent"
                   /\ RemoveRefused(rtCont[c], force)
                THEN "api" ELSE fault
       IN  IF rtCont[c] = "absent"
           THEN /\ rtOut' = [NoInfo EXCEPT !.kind = "returned"]
                /\ UNCHANGED rtCont
           ELSE IF f = "none"
           THEN /\ rtOut' = [NoInfo EXCEPT !.kind = "returned"]
                /\ rtCont' = [rtCont EXCEPT ![c] = "absent"]
           ELSE /\ rtOut' = [NoInfo EXCEPT !.kind =
                                IF RemoveRaises(b, f, force) THEN "raised"
                                ELSE "returned"]
                /\ UNCHANGED rtCont
    /\ UNCHANGED nonRtVars

\* runtime.get_container_info(c): ValueError for a missing container,
\* otherwise the ContainerInfo with the mapped state
GetContainerInfo(b, c) ==
    /\ rtBackend' = b
    /\ rtCall' = "info"
    /\ rtOut' = IF rtCont[c] = "absent"
                THEN [NoInfo EXCEPT !.kind = "raised"]
                ELSE [kind |-> "info", raw |-> rtCont[c],
                      state |-> StateOf(b, Lower(rtCont[c]))]
    /\ UNCHANGED <<rtCont, nonRtVars>>

\* Calls on a DockerRuntime or PodmanRuntime while the backend moves its
\* containers from status to status.
NextRuntime ==
    \/ \E c \in RtIds, st \in RawStatuses \cup {"absent"} : BackendSets(c, st)
    \/ \E b \in Backends, c \in RtIds, fault \in Faults : StopContainer(b, c, fault)
    \/ \E b \in Backends, c \in RtIds, force \in BOOLEAN, fault \in Faults :
          RemoveContainer(b, c, force, fault)
    \/ \E b \in Backends, c \in RtIds : GetContainerInfo(b, c)

SpecRuntime == Init /\ [][NextRuntime]_vars

\* ------------------------------------------------- files.write / files.read
\* paths inside the container: the working directory, which exists and is a
\* directory, and files in it
WorkDir == 0
FilePaths == 1..NumFiles
Paths == {WorkDir} \cup FilePaths
\* bytes: an ASCII letter, a UTF-8 lead byte and a continuation byte (A, the
\* two bytes of e-acute); code points: the letter and e-acute
ByteVals == {65, 195, 169}
CodePoints == {65, 233}
ByteStrings == UNION {[1..n -> ByteVals] : n \in 0..MaxLen}
Strings == UNION {[1..n -> CodePoints] : n \in 0..MaxLen}

\* str.encode("utf-8") for code points below U+0800
RECURSIVE Utf8Encode(_)
Utf8Encode(str) ==
    IF str = <<>> THEN <<>>
    ELSE (IF str[1] < 128 THEN <<str[1]>>
          ELSE <<192 + (str[1] \div 64), 128 + (str[1] % 64)>>)
         \o Utf8Encode(Tail(str))

\* bytes.decode("utf-8", "ignore") for one- and two-byte sequences: a byte
\* that starts no valid sequence is dropped
RECURSIVE Utf8DecodeIgnore(_)
Utf8DecodeIgnore(b) ==
    IF b = <<>> THEN <<>>
    ELSE IF b[1] < 128 THEN <<b[1]>> \o Utf8DecodeIgnore(Tail(b))
    ELSE IF b[1] \in 194..223 /\ Len(b) >= 2 /\ b[2] \in 128..191
         THEN <<(b[1] - 192) * 64 + (b[2] - 128)>> \o Utf8DecodeIgnore(Tail(Tail(b)))
    ELSE Utf8DecodeIgnore(Tail(b))

\* FilesFacade.write: `data.encode("utf-8") if isinstance(data, str) else data`,
\* then fs_write: `data if not text else data.decode("utf-8").encode("utf-8")`
BytesWritten(data, mode) == IF mode = "text" THEN Utf8Encode(data) ELSE data

\* fs_read: `data.decode("utf-8", "ignore") if text else data`
ValueRead(b, mode) == IF mode = "text" THEN Utf8DecodeIgnore(b) ELSE b

\* every variable outside the files calls
nonFlVars == <<now, runtimeUp, containers, stateFile, fileTorn, fileOpen, scratch,
               volumes, pc, handle, closed, loaded, sdCalls, conn, raised, wd,
               wdSnap, wdEntry, opsVars, pgVars, pxVars, dtVars, rtVars,
               wiVars,
               hdVars, ptVars>>

\* files.write(f, data, mode): put.tmp gets the bytes and copy_to_container
\* sends it as a tar archive with the file name of f to the parent of f;
\* put_archive fails when f is a directory in the container.
FilesWrite(f, data, mode) ==
    /\ flPutTmp' = File(BytesWritten(data, mode))
    /\ IF flCont[f].kind = "dir"
       THEN /\ flOut' = [NoCall EXCEPT !.op = "write", !.path = f, !.mode = mode,
                                       !.kind = "raised"]
            /\ UNCHANGED <<flCont, flLast>>
       ELSE /\ flCont' = [flCont EXCEPT ![f] = flPutTmp']
            /\ flLast' = [flLast EXCEPT ![f] = [mode |-> mode, data |-> data]]
            /\ flOut' = [NoCall EXCEPT !.op = "write", !.path = f, !.mode = mode,
                                       !.kind = "returned"]
    /\ UNCHANGED <<flGetTmp, nonFlVars>>

\* files.read(f, mode): copy_from_container gets the archive of f
\* (NotFound for a missing path).  A single regular file is written to
\* get.tmp with write_bytes, which fails when get.tmp is a directory;
\* anything else is extracted below get.tmp, created as a directory when
\* there is no get.tmp, which fails when get.tmp is a file.  Then
\* local.read_bytes(), which fails on a directory.
FilesRead(f, mode) ==
    LET raisedOut == [NoCall EXCEPT !.op = "read", !.path = f, !.mode = mode,
                                    !.kind = "raised"]
    IN  /\ CASE flCont[f].kind = "absent" ->
                   /\ flOut' = raisedOut
                   /\ UNCHANGED flGetTmp
             [] flCont[f].kind = "file" ->
                   IF flGetTmp.kind = "dir"
                   THEN /\ flOut' = raisedOut
                        /\ UNCHANGED flGetTmp
                   ELSE /\ flGetTmp' = flCont[f]
                        /\ flOut' = [op |-> "read", path |-> f, mode |-> mode,
                                     kind |-> "returned",
                                     data |-> ValueRead(flGetTmp'.data, mode)]
             [] OTHER ->
                   /\ flGetTmp' = IF flGetTmp.kind = "absent" THEN Dir ELSE flGetTmp
                   /\ flOut' = raisedOut
        /\ UNCHANGED <<flCont, flPutTmp, flLast, nonFlVars>>

\* files.write and files.read calls on one sandbox, one after the other.
NextFiles ==
    \/ \E f \in Paths, b \in ByteStrings : FilesWrite(f, b, "binary")
    \/ \E f \in Paths, str \in Strings : FilesWrite(f, str, "text")
    \/ \E f \in Paths, mode \in {"binary", "text"} : FilesRead(f, mode)

SpecFiles == Init /\ [][NextFiles]_vars

\* ------------------------------------------------------ watchdog lifetime
\* Another writer of the store leaves the entry of the sandbox with stamps
\* that do not parse, before the first sleep of the watchdog is over.
StoreDamaged(s, fields) ==
    /\ now = 0
    /\ Present(stateFile[s])
    /\ ~fileTorn
    /\ stateFile' = [stateFile EXCEPT ![s] =
                        [@ EXCEPT !.created = IF "created_at" \in fields
                                              THEN BadStamp ELSE @,
                                  !.la = IF "last_active_at" \in fields
                                         THEN BadStamp ELSE @]]
    /\ stateFile'[s] # stateFile[s]
    /\ UNCHANGED <<now, runtimeUp, containers, fileTorn, fileOpen, scratch,
                   volumes, pc, handle, closed, loaded, sdCalls, conn, raised, wd,
                   wdSnap, wdEntry, opsVars, pgVars, extVars>>

\* a clock reading later than every deadline that an entry created at 0 with
\* a timeout of MaxTimeout and stamps that parse can have
LiveClock == Max(MaxTimeout * 2, MaxTimeout + LifetimeGrace) + 1

\* time.sleep(1.0) is over and the watchdog polls again.  Clock readings
\* from LiveClock on are taken together.
TickLive ==
    /\ \A s \in Solo : wd[s] = "sleep"
    /\ now' = Min(now + 1, LiveClock)
    /\ wd' = [s \in Ids |-> IF wd[s] = "sleep" THEN "poll" ELSE wd[s]]
    /\ UNCHANGED <<runtimeUp, containers, stateFile, fileTorn, fileOpen, scratch,
                   volumes, pc, handle, closed, loaded, sdCalls, conn, raised, wdSnap,
                   wdEntry, opsVars, pgVars, extVars>>

\* the steps of the watchdog process and of its clock
WatchdogStep ==
    \/ TickLive
    \/ \E s \in Solo : WdPoll(s)
    \/ \E s \in Solo : WdReap(s)
    \/ \E s \in Solo : WdReapOpen(s)
    \/ \E s \in Solo : WdReapWrite(s)
    \/ \E s \in Solo : WdGoneOpen(s)
    \/ \E s \in Solo : WdGoneWrite(s)

\* One sandbox created at clock reading 0 with a timeout of MaxTimeout, its
\* owner, another writer that damages the stamps of its entry, and its
\* watchdog, which keeps running.
NextLive ==
    \/ \E s \in Solo : Create(s, MaxTimeout)
    \/ \E s \in Solo : CreatePersist(s)
    \/ \E s \in Solo : Run(s)
    \/ \E s \in Solo : PersistHandle(s)
    \/ \E s \in Solo, fields \in (SUBSET {"created_at", "last_active_at"}) \ {{}} :
          StoreDamaged(s, fields)
    \/ WatchdogStep

SpecLive == Init /\ [][NextLive]_vars /\ WF_vars(WatchdogStep)

\* ------------------------------------ watchdog pass, read and decision apart
\* main(), line 51: state = _load_state().  The pass works on this document
\* from here on, whatever is written to the file afterwards.
WdLoad(s) ==
    /\ wd[s] = "poll"
    /\ wdSnap' = [wdSnap EXCEPT ![s] = LoadState]
    /\ wd' = [wd EXCEPT ![s] = "decide"]
    /\ UNCHANGED <<now, runtimeUp, containers, stateFile, fileTorn, fileOpen,
                   scratch, volumes, pc, handle, closed, loaded, sdCalls, conn, raised,
                   wdEntry, opsVars, pgVars, extVars>>

\* main(), lines 52-113 and 129: the entry of the document read before, the
\* clock read now (line 69), the two deadlines, and the branch taken.
WdDecide(s) ==
    /\ wd[s] = "decide"
    /\ LET snap == wdSnap[s]
           entry == snap[s]
       IN  IF ~Present(entry)
           THEN /\ wd' = [wd EXCEPT ![s] = "exited"]
                /\ wdSnap' = [wdSnap EXCEPT ![s] = EmptyDoc]
                /\ UNCHANGED wdEntry
           ELSE IF Expired(Parsed(entry, now), now)
           THEN /\ wd' = [wd EXCEPT ![s] = "reap"]
                /\ wdSnap' = [wdSnap EXCEPT ![s] = WithoutEntry(snap, s)]
                /\ wdEntry' = [wdEntry EXCEPT ![s] = entry]
           ELSE IF runtimeUp
           THEN \E answer \in ContainerExistsAnswers(entry.cid) :
                  IF answer
                  THEN /\ wd' = [wd EXCEPT ![s] = "sleep"]
                       /\ wdSnap' = [wdSnap EXCEPT ![s] = EmptyDoc]
                       /\ UNCHANGED wdEntry
                  ELSE /\ wd' = [wd EXCEPT ![s] = "gone_open"]
                       /\ wdSnap' = [wdSnap EXCEPT ![s] = WithoutEntry(snap, s)]
                       /\ UNCHANGED wdEntry
           ELSE /\ wd' = [wd EXCEPT ![s] = "sleep"]
                /\ wdSnap' = [wdSnap EXCEPT ![s] = EmptyDoc]
                /\ UNCHANGED wdEntry
    /\ UNCHANGED <<now, runtimeUp, containers, stateFile, fileTorn, fileOpen,
                   scratch, volumes, pc, handle, closed, loaded, sdCalls, conn, raised,
                   opsVars, pgVars, extVars>>

\* the timeout the sandbox is created with, and a longer one
RaceTimeouts == {MaxTimeout, MaxTimeout + 1}

\* One sandbox with a timeout that is not over at once, its owner, who runs
\* commands and refreshes the timeout, and its watchdog, whose read of the
\* state file, decision and stop call are steps of their own.  The daemon
\* stays reachable.
NextRace ==
    \/ Tick
    \/ \E s \in Solo : Create(s, MaxTimeout)
    \/ \E s \in Solo : CreatePersist(s)
    \/ \E s \in Solo : Run(s)
    \/ \E s \in Solo, d \in RaceTimeouts : RefreshTimeout(s, d)
    \/ \E s \in Solo : PersistHandle(s)
    \/ \E s \in Solo : WdLoad(s)
    \/ \E s \in Solo : WdDecide(s)
    \/ \E s \in Solo : WdReap(s)
    \/ \E s \in Solo : WdReapOpen(s)
    \/ \E s \in Solo : WdReapWrite(s)
    \/ \E s \in Solo : WdGoneOpen(s)
    \/ \E s \in Solo : WdGoneWrite(s)
    \/ \E s \in Solo : WdWake(s)

SpecRace == Init /\ [][NextRace]_vars

\* --------------------------------------------- watchdog.main on any store
\* int(entry.get("timeout_seconds", 300))                   watchdog.py:68
DefaultTimeout == 300

nonWiVars == <<now, runtimeUp, containers, stateFile, fileTorn, fileOpen, scratch,
               volumes, pc, handle, closed, loaded, sdCalls, conn, raised, wd,
               wdSnap, wdEntry, opsVars, pgVars, pxVars, dtVars, rtVars, flVars,
               hdVars, ptVars>>

\* created_at / last_active_at: an ISO timestamp, another string, no key
StampForms == {"iso", "text", "missing"}
\* timeout_seconds: an integer, a string of digits, another string, null,
\* no key, an integer too large for timedelta
TimeoutForms == {"int", "digits", "text", "null", "missing", "huge"}
Items ==
    {[NoItem EXCEPT !.kind = k] : k \in {"absent", "empty", "string"}}
        \cup [kind : {"object"}, created : StampForms, la : StampForms,
              timeout : TimeoutForms, cid : {"id", "missing"}]
\* the file: unreadable, a JSON object, or JSON that is not an object (a list)
Docs ==
    {[form |-> f, entry |-> NoItem] : f \in {"unreadable", "array"}}
        \cup [form : {"object"}, entry : Items]

\* _load_state(): {} when the file cannot be read or parsed, otherwise
\* whatever json.loads returned
WiLoadState(doc) ==
    IF doc.form = "unreadable" THEN [form |-> "object", entry |-> NoItem] ELSE doc

\* the exception that lines 52-74 let through, "none" when there is none:
\* state.get on a list (52); entry.get on a string (68; the subscripts of
\* lines 57 and 62 raise inside try blocks); int() of a string that is not a
\* number or of None (68); timedelta of a number out of range (70)
PassRaises(state) ==
    IF state.form # "object" THEN "AttributeError"
    ELSE IF state.entry.kind \in {"absent", "empty"} THEN "none"
    ELSE IF state.entry.kind = "string" THEN "AttributeError"
    ELSE IF state.entry.timeout = "text" THEN "ValueError"
    ELSE IF state.entry.timeout = "null" THEN "TypeError"
    ELSE IF state.entry.timeout = "huge" THEN "OverflowError"
    ELSE "none"

\* the entry as lines 56-68 read it: a stamp that does not parse or is
\* missing takes its fallback, timeout_seconds is int() of the value or 300
WiEntry(item) ==
    [cid |-> IF item.cid = "id" THEN 1 ELSE 0,
     created |-> IF item.created = "iso" THEN 0 ELSE BadStamp,
     la |-> IF item.la = "iso" THEN 0 ELSE BadStamp,
     D |-> IF item.timeout = "missing" THEN DefaultTimeout ELSE 1]

\* clock readings on both sides of the deadlines of such an entry
WiClock == {0, 1, DefaultTimeout}
\* get_runtime gives a runtime or None; stop_container works or raises
WiRuntimes == {"up", "none", "stop_raises"}

\* Another process writes state.json, or the file is damaged, before the
\* watchdog starts or while it sleeps; the container comes or goes.
WiStore(doc, c) ==
    /\ wiPc \in {"none", "sleep"}
    /\ wiDoc' = doc
    /\ wiCont' = c
    /\ <<wiDoc', wiCont'>> # <<wiDoc, wiCont>>
    /\ UNCHANGED <<wiPc, wiOut, nonWiVars>>

\* python -m quixand.core.watchdog <id>
WiStart ==
    /\ wiPc \in {"none", "returned", "raised"}
    /\ wiPc' = "poll"
    /\ wiOut' = NoExit
    /\ UNCHANGED <<wiDoc, wiCont, nonWiVars>>

\* One pass of the loop of main(), at clock reading t with the runtime in
\* condition rt; `wrote`: write_text of the popped document succeeded.
WiPass(t, rt, wrote) ==
    /\ wiPc = "poll"
    /\ LET state == WiLoadState(wiDoc)
           item == state.entry
           exc == PassRaises(state)
           popped == IF wrote THEN [form |-> "object", entry |-> NoItem] ELSE wiDoc
       IN  IF exc # "none"
           THEN /\ wiPc' = "raised"
                /\ wiOut' = [kind |-> "raise", exc |-> exc]
                /\ UNCHANGED <<wiDoc, wiCont>>
           ELSE IF item.kind \in {"absent", "empty"}
           THEN /\ wiPc' = "returned"
                /\ wiOut' = [kind |-> "return", exc |-> "none"]
                /\ UNCHANGED <<wiDoc, wiCont>>
           ELSE IF Expired(Parsed(WiEntry(item), t), t)
           THEN /\ wiPc' = "returned"
                /\ wiOut' = [kind |-> "return", exc |-> "none"]
                /\ wiCont' = IF item.cid = "id" /\ rt = "up" THEN FALSE ELSE wiCont
                /\ wiDoc' = popped
           ELSE IF item.cid = "id" /\ rt # "none" /\ ~wiCont
           THEN /\ wiPc' = "returned"
                /\ wiOut' = [kind |-> "return", exc |-> "none"]
                /\ wiDoc' = popped
                /\ UNCHANGED wiCont
           ELSE /\ wiPc' = "sleep"
                /\ UNCHANGED <<wiDoc, wiCont, wiOut>>
    /\ UNCHANGED nonWiVars

\* time.sleep(1.0) is over
WiWake ==
    /\ wiPc = "sleep"
    /\ wiPc' = "poll"
    /\ UNCHANGED <<wiDoc, wiCont, wiOut, nonWiVars>>

\* A watchdog process on a state file of every content.
NextInput ==
    \/ \E doc \in Docs, c \in BOOLEAN : WiStore(doc, c)
    \/ WiStart
    \/ \E t \in WiClock, rt \in WiRuntimes, wrote \in BOOLEAN : WiPass(t, rt, wrote)
    \/ WiWake

SpecInput == Init /\ [][NextInput]_vars

\* ------------------------------------------- adapter.create that fails
\* the steps of LocalDockerAdapter.create that can raise: the image is
\* neither local nor pullable (_ensure_image_exists), create_container,
\* start_container, the write of _persist_handle
CreateSteps == {"image", "create", "start", "persist"}

\* the container exists in the runtime once create_container has returned
ContainerMadeBefore(step) == step \in {"start", "persist"}

\* Sandbox(...) raises at `step`: _ensure_volume_dir has made the volume
\* directory before the first runtime call, and nothing undoes what was done
\* when a later step raises; the handle is never returned and no watchdog is
\* spawned.
CreateFails(s, step) ==
    /\ pc[s] = "none"
    /\ volumes' = volumes \cup {s}
    /\ containers' = IF ContainerMadeBefore(step) THEN containers \cup {s}
                     ELSE containers
    /\ pc' = [pc EXCEPT ![s] = "failed"]
    /\ UNCHANGED <<now, runtimeUp, stateFile, fileTorn, fileOpen, scratch, handle,
                   closed, loaded, sdCalls, conn, raised, wd, wdSnap, wdEntry,
                   opsVars, pgVars, extVars>>

\* Constructor calls, each of which returns a sandbox or raises at one of the
\* steps; the daemon stays reachable.
NextCreate ==
    \/ \E s \in Ids, d \in Timeouts : Create(s, d)
    \/ \E s \in Ids : CreatePersist(s)
    \/ \E s \in Ids, step \in CreateSteps : CreateFails(s, step)

SpecCreate == Init /\ [][NextCreate]_vars

\* ------------------------------------- a second object for the same sandbox
\* (the state file apart)
nonChVars == <<now, runtimeUp, containers, scratch, volumes, pc, handle, closed,
               loaded, sdCalls, conn, raised, wd, wdSnap, wdEntry, opsVars, pgVars,
               sideVars, refArg>>

\* lifecycle.connect(id) in another process (the CLI does it for every
\* command): adapter.connect builds a LocalHandle of its own from the entry
\* as it is in the store at that moment.
ChConnect(s) ==
    /\ chPc \in {"none", "idle"}
    /\ Present(LoadState[s])
    /\ chHandle' = LoadState[s]
    /\ chPc' = "idle"
    /\ UNCHANGED <<chLoaded, chArg, stateFile, fileTorn, fileOpen, nonChVars>>

\* run / fs_* on the connected object: the runtime call succeeded,
\* h.last_active_at = utcnow(), and the read half of _persist_handle
ChRun ==
    /\ chPc = "idle"
    /\ runtimeUp /\ chHandle.cid \in containers
    /\ chHandle' = Touch(chHandle, now)
    /\ chLoaded' = WithEntry(LoadState, chHandle.cid, chHandle')
    /\ chPc' = "op_write"
    /\ UNCHANGED <<chArg, stateFile, fileTorn, fileOpen, nonChVars>>

\* refresh_timeout(seconds) on the connected object
ChRefresh(d) ==
    /\ chPc = "idle"
    /\ chHandle' = Refreshed(chHandle, now, d)
    /\ chLoaded' = WithEntry(LoadState, chHandle.cid, chHandle')
    /\ chPc' = "op_write"
    /\ chArg' = d
    /\ UNCHANGED <<stateFile, fileTorn, fileOpen, nonChVars>>

\* the write half of _persist_handle of the connected object's operation
ChPersist ==
    /\ chPc = "op_write"
    /\ AtomicWrite(chLoaded)
    /\ chLoaded' = EmptyDoc
    /\ chArg' = NoArg
    /\ chPc' = "idle"
    /\ UNCHANGED <<chHandle, nonChVars>>

\* One sandbox used through two objects: the one its constructor returned
\* and one obtained by connect(); both run commands and refresh the timeout.
NextHandles ==
    \/ Tick
    \/ \E s \in Solo : Create(s, MaxTimeout)
    \/ \E s \in Solo : CreatePersist(s)
    \/ \E s \in Solo : Run(s)
    \/ \E s \in Solo, d \in RaceTimeouts : RefreshTimeout(s, d)
    \/ \E s \in Solo : PersistHandle(s)
    \/ \E s \in Solo : ChConnect(s)
    \/ ChRun
    \/ \E d \in RaceTimeouts : ChRefresh(d)
    \/ ChPersist

SpecHandles == Init /\ [][NextHandles]_vars

\* ------------------------------------------------------------- PTY session
\* DockerRuntime.create_pty_session starts PTYSession._stream_thread
\* (stream_handler), which starts the reader thread (read_output); the caller
\* iterates stream_pty_output and calls close_pty_session.  The process in
\* the container writes the chunks 1..MaxChunks, in that order, and may end
\* at any moment.

MaxChunks == 2

nonPtVars == <<now, runtimeUp, containers, stateFile, fileTorn, fileOpen, scratch,
               volumes, pc, handle, closed, loaded, sdCalls, conn, raised, wd,
               wdSnap, wdEntry, opsVars, pgVars, pxVars, dtVars, rtVars, flVars,
               wiVars, hdVars>>

\* read_output: `while not session._closed`
RdTest ==
    /\ ptRd = "test"
    /\ ptRd' = IF ptClosed THEN "done" ELSE "recv"
    /\ UNCHANGED <<ptClosed, ptSock, ptQueue, ptPut, ptYield, ptTh, ptCs, ptCl>>
    /\ UNCHANGED nonPtVars

\* read_output: recv returned a chunk, which goes to output_queue
RdChunk ==
    /\ ptRd = "recv"
    /\ ptSock
    /\ Len(ptPut) < MaxChunks
    /\ ptQueue' = Append(ptQueue, Len(ptPut) + 1)
    /\ ptPut' = Append(ptPut, Len(ptPut) + 1)
    /\ ptRd' = "test"
    /\ UNCHANGED <<ptClosed, ptSock, ptYield, ptTh, ptCs, ptCl>>
    /\ UNCHANGED nonPtVars

\* read_output: recv returned b'' (the process ended): the reader closes
\* the session and leaves
RdEof ==
    /\ ptRd = "recv"
    /\ ptSock
    /\ ptClosed' = TRUE
    /\ ptRd' = "done"
    /\ UNCHANGED <<ptSock, ptQueue, ptPut, ptYield, ptTh, ptCs, ptCl>>
    /\ UNCHANGED nonPtVars

\* read_output: recv raised (0.1 s without data, or the socket was closed):
\* continue unless the session is closed
RdRaise ==
    /\ ptRd = "recv"
    /\ ptRd' = IF ptClosed THEN "done" ELSE "test"
    /\ UNCHANGED <<ptClosed, ptSock, ptQueue, ptPut, ptYield, ptTh, ptCs, ptCl>>
    /\ UNCHANGED nonPtVars

\* stream_handler: the input loop sees _closed, or a send raised; the
\* finally clause sets _closed and the thread ends
ThExit(sendRaised) ==
    /\ ptTh = "input"
    /\ ptClosed \/ sendRaised
    /\ ptClosed' = TRUE
    /\ ptTh' = "dead"
    /\ UNCHANGED <<ptSock, ptQueue, ptPut, ptYield, ptRd, ptCs, ptCl>>
    /\ UNCHANGED nonPtVars

\* the caller starts to iterate stream_pty_output(session)
CsStart ==
    /\ ptCs = "none"
    /\ ptCs' = "test"
    /\ UNCHANGED <<ptClosed, ptSock, ptQueue, ptPut, ptYield, ptRd, ptTh, ptCl>>
    /\ UNCHANGED nonPtVars

\* stream_pty_output: `while not session._closed`; the generator returns
\* when the test fails
CsTest ==
    /\ ptCs = "test"
    /\ ptCs' = IF ptClosed THEN "done" ELSE "get"
    /\ UNCHANGED <<ptClosed, ptSock, ptQueue, ptPut, ptYield, ptRd, ptTh, ptCl>>
    /\ UNCHANGED nonPtVars

\* stream_pty_output: output_queue.get(timeout=0.1) gave a chunk, yielded
CsGet ==
    /\ ptCs = "get"
    /\ ptQueue # <<>>
    /\ ptYield' = Append(ptYield, Head(ptQueue))
    /\ ptQueue' = Tail(ptQueue)
    /\ ptCs' = "test"
    /\ UNCHANGED <<ptClosed, ptSock, ptPut, ptRd, ptTh, ptCl>>
    /\ UNCHANGED nonPtVars

\* stream_pty_output: queue.Empty after 0.1 s: drain if the stream thread
\* has ended, else continue
CsEmpty ==
    /\ ptCs = "get"
    /\ ptQueue = <<>>
    /\ ptCs' = IF ptTh = "dead" THEN "drain" ELSE "test"
    /\ UNCHANGED <<ptClosed, ptSock, ptQueue, ptPut, ptYield, ptRd, ptTh, ptCl>>
    /\ UNCHANGED nonPtVars

\* stream_pty_output: `while not output_queue.empty(): yield get_nowait()`,
\* then break
CsDrain ==
    /\ ptCs = "drain"
    /\ ptYield' = ptYield \o ptQueue
    /\ ptQueue' = <<>>
    /\ ptCs' = "done"
    /\ UNCHANGED <<ptClosed, ptSock, ptPut, ptRd, ptTh, ptCl>>
    /\ UNCHANGED nonPtVars

\* close_pty_session: session._closed = True
ClosePty ==
    /\ ptCl = "none"
    /\ ptClosed' = TRUE
    /\ ptCl' = "socket"
    /\ UNCHANGED <<ptSock, ptQueue, ptPut, ptYield, ptRd, ptTh, ptCs>>
    /\ UNCHANGED nonPtVars

\* close_pty_session: session._socket.close(), then the join of at most 1 s
ClosePtySocket ==
    /\ ptCl = "socket"
    /\ ptSock' = FALSE
    /\ ptCl' = "done"
    /\ UNCHANGED <<ptClosed, ptQueue, ptPut, ptYield, ptRd, ptTh, ptCs>>
    /\ UNCHANGED nonPtVars

NextPty ==
    \/ RdTest
    \/ RdChunk
    \/ RdEof
    \/ RdRaise
    \/ \E sendRaised \in BOOLEAN : ThExit(sendRaised)
    \/ CsStart
    \/ CsTest
    \/ CsGet
    \/ CsEmpty
    \/ CsDrain
    \/ ClosePty
    \/ ClosePtySocket

SpecPty == Init /\ [][NextPty]_vars

\* =================================================================== claims

\* C1: for a sandbox built by Sandbox(...), at the step where Sandbox.shutdown()
\* returns from a call that went into adapter.shutdown, the container is gone
\* from the runtime, the state store has no entry for the id, and the scratch
\* and volume directories are gone.
ShutdownRemovesAll ==
    [][\A s \in Solo :
          (pc[s] \in SdPcs /\ pc'[s] = "idle")
              => /\ handle[s].cid \notin containers'
                 /\ ~Present(stateFile'[s])
                 /\ s \notin scratch'
                 /\ s \notin volumes']_vars

\* C2: a Sandbox.shutdown() call that follows an earlier call on the same
\* object finds _closed set (the earlier call set it on each of its paths),
\* and changes neither the runtime nor the state store nor the host
\* directories: N calls in sequence leave what the first call left.
ShutdownIdempotent ==
    /\ [](\A s \in Solo :
             (sdCalls[s] >= 1 /\ pc[s] \in Ready \cup {"op_write"}) => closed[s])
    /\ [][\A s \in Solo :
             (sdCalls'[s] # sdCalls[s] /\ sdCalls[s] >= 1)
                 => /\ pc'[s] = "idle"
                    /\ UNCHANGED <<containers, stateFile, fileTorn, fileOpen,
                                   scratch, volumes, handle, closed>>]_vars

\* C2 witness: a second call has returned on a closed object.
ShutdownTwice ==
    \E s \in Solo : sdCalls[s] = 2 /\ closed[s] /\ pc[s] = "idle"

\* C3: no Sandbox.shutdown() call raises to its caller, on an object built by
\* the constructor or returned by connect().
ShutdownNeverRaises == ~raised

\* C4: when the owner was killed right after Sandbox(...) returned and the
\* watchdog of the sandbox has left its loop, the container is gone from the
\* runtime, the state store has no entry for the id, and the scratch and
\* volume directories are gone.
WatchdogReapsOrphan ==
    \A s \in Solo :
        (pc[s] = "dead_fresh" /\ wd[s] \in {"exited", "reaped"})
            => /\ s \notin containers
               /\ ~Present(stateFile[s])
               /\ s \notin scratch
               /\ s \notin volumes

StoreNonInterference ==
    [][\A s \in Ids :
          (pc'[s] # pc[s] \/ wd'[s] # wd[s])
              => \A o \in Ids \ {s} : stateFile'[o] = stateFile[o]]_vars

\* C7: no reader (the read half of _persist_handle and of _remove_state, the
\* watchdog's read at the top of its loop) runs while the state file is
\* truncated and not yet written.
NoPartialRead ==
    [][fileTorn
          => \A s \in Ids :
                /\ ~(pc[s] = "none" /\ pc'[s] = "create_write")
                /\ ~(pc[s] \in Ready /\ pc'[s] = "op_write")
                /\ ~(pc[s] = "sd_load" /\ pc'[s] = "sd_write")
                /\ ~(wd[s] = "poll" /\ wd'[s] # "poll")]_vars

\* C8: the teardown of a sandbox is carried out at most once: adapter.shutdown
\* is never past its stop/remove calls for a sandbox whose watchdog has
\* carried out its reap branch.
TeardownAtMostOnce ==
    \A s \in Solo :
        ~(/\ pc[s] \in {"sd_load", "sd_write", "sd_dirs"}
          /\ wd[s] \in {"reap_open", "reap_write", "reaped"})

\* C9: every entry of the state store names the container created for its id,
\* and that container is present in the runtime or a shutdown or a watchdog
\* is tearing the sandbox down at that moment (owner alive).
EntryHasContainer ==
    \A s \in Solo :
        (Present(stateFile[s]) /\ pc[s] \notin {"dead", "dead_fresh"})
            => /\ stateFile[s].cid = s
               /\ \/ s \in containers
                  \/ pc[s] \in SdPcs
                  \/ wd[s] \in ReapPcs \cup GonePcs

\* C10: last_active_at >= created_at in the handle and in the persisted entry;
\* no step of the owner lowers last_active_at of the handle, and each write
\* of _persist_handle leaves the persisted last_active_at at least what it was.
LastActiveMonotone ==
    /\ [](\A s \in Solo :
             /\ handle[s].la >= handle[s].created
             /\ stateFile[s].la >= stateFile[s].created)
    /\ [][\A s \in Solo :
             /\ Present(handle[s]) => handle'[s].la >= handle[s].la
             /\ (pc[s] = "op_write" /\ pc'[s] = "idle" /\ Present(stateFile[s]))
                   => stateFile'[s].la >= stateFile[s].la]_vars

\* C10 witness: an operation made later than the creation has been persisted.
LaterActivityPersisted ==
    \E s \in Solo :
        /\ pc[s] = "idle"
        /\ Present(stateFile[s])
        /\ stateFile[s].la > stateFile[s].created
        /\ stateFile[s] = handle[s]

\* C11: the step at which the runtime call of an adapter operation succeeds
\* sets the handle's last_active_at to the current time, and the step at
\* which the operation returns leaves the handle as the sandbox's entry in
\* the state store.
OpTouchesAndPersists ==
    [][\A s \in Solo :
          /\ (pc[s] \in Ready \cup {"run_exec"} /\ pc'[s] \in {"op_write", "ls_ret"})
                => handle'[s].la = now
          /\ (pc[s] \in {"op_write", "ls_ret"} /\ pc'[s] = "idle")
                => stateFile'[s] = handle[s]]_vars

\* C12: timeout_seconds of every handle and of every persisted entry is
\* greater than 0.
TimeoutPositive ==
    \A s \in Solo :
        /\ Present(handle[s]) => handle[s].D > 0
        /\ Present(stateFile[s]) => stateFile[s].D > 0

\* C19: adapter.run returns a result only for a command that finished within
\* the timeout passed to it; when it raises instead, the container, the
\* handle and the state store are left as they were.
RunTimeoutRaises ==
    [][\A s \in Solo :
          /\ (pc[s] = "run_exec" /\ pc'[s] = "op_write")
                => now <= runStart[s] + runT[s]
          /\ (pc[s] = "run_exec" /\ pc'[s] = "idle")
                => /\ s \in containers'
                   /\ stateFile' = stateFile
                   /\ handle' = handle]_vars

\* C20: the caller of adapter.run is never still inside the call after the
\* timeout it passed is over.
RunReturnsByTimeout ==
    \A s \in Solo :
        pc[s] = "run_exec" => now <= runStart[s] + runT[s]

\* C13: the sandboxes in the pool plus the tracked sandboxes that are out of
\* the pool (checked out) never number more than the sandboxes the
\* playground has created, and when close() returns the pool and the tracked
\* set are empty.
PlaygroundAccounting ==
    /\ [](Len(pgPool)
            + Cardinality(pgAll \ {pgPool[i] : i \in 1..Len(pgPool)})
              <= Cardinality({s \in Ids : pc[s] \in Ready}))
    /\ [][(pgPc = "cleanup" /\ pgPc' = "idle")
             => (pgPool' = <<>> /\ pgAll' = {})]_vars

\* C14: a create() that takes from the pool returns the sandbox put last and
\* leaves the others in place; a release that puts a sandbox back puts it on
\* top; the first two sandboxes handed out after a prewarm are distinct.
PoolIsLifo ==
    [][/\ (Len(pgPool') = Len(pgPool) - 1 /\ pgClosed' = pgClosed)
            => /\ pgOut' = pgPool[Len(pgPool)]
               /\ pgPool' = SubSeq(pgPool, 1, Len(pgPool) - 1)
       /\ (pgPc = "release" /\ Len(pgPool') = Len(pgPool) + 1)
            => pgPool'[Len(pgPool')] = pgArg
       /\ (pgPc \in {"enter", "create_enter"} /\ Len(pgPool') = Len(pgPool) + 1)
            => \A i \in 1..Len(pgPool) : pgPool'[Len(pgPool')] # pgPool[i]]_vars

\* C14 witness: two distinct sandboxes were handed out, the one handed out
\* first among them was released, and create() returned it again.
ReleasedComesBack ==
    /\ pgPc = "idle"
    /\ pgHeld = {1, 2}
    /\ pgOut = 2
    /\ pgPool = <<>>
    /\ pgAll = {1, 2}

NoShutDownSandboxPooled ==
    [][/\ (pgPc = "release" /\ pgPc' = "idle" /\ closed[pgArg])
            => pgPool' = pgPool
       /\ (Len(pgPool') = Len(pgPool) - 1 /\ pgClosed' = pgClosed)
            => ~closed[pgOut']]_vars

\* C18: a signal handler never blocks: it closes the registered playground
\* and ends; after it, or after interpreter exit, the playground is out of
\* the registry with every sandbox it tracked shut down, and SIGTERM alone
\* gives exit status 143.
SignalHandlerReturns ==
    /\ pgPc # "sig_blocked"
    /\ pgPc = "exited" => ~pgReg
    /\ pgExit \in {0, SigTermStatus}

\* C21: proxy.run requests the primary path first; a fallback path is
\* requested only after replies that were all 404, in the given order, and no
\* request follows a reply that is not 404; when run ends on a status, that
\* status is the last reply's: outside 200..299 ProxyError is raised, otherwise
\* the body of the last reply is returned, JSON-decoded when it parses.
RunDispatch ==
    LET n == Len(pxReplies)
    IN  /\ \A j \in 1..n : pxReplies[j].path = j - 1
        /\ \A j \in 1..(n - 1) : pxReplies[j].status = 404
        /\ n <= 1 + pxFbs
        /\ (pxPc = "fallback") => pxReplies[n].status = 404 /\ n < 1 + pxFbs
        /\ (pxPc \in {"finish", "done"} /\ n > 0 /\ pxOut.kind # "raised")
              => \/ pxReplies[n].status # 404
                 \/ n = 1 + pxFbs
        /\ (pxPc = "done" /\ n > 0 /\ pxOut.kind # "raised")
              => IF pxReplies[n].status \in 200..299
                 THEN /\ pxOut.kind = "return"
                      /\ pxOut.value.path = n - 1
                      /\ pxOut.value.form =
                            (IF pxBody.form = "json" THEN "parsed"
                             ELSE IF pxBody.form = "text" THEN "raw" ELSE "None")
                 ELSE pxOut.kind = "ProxyError"

\* C21 witness: primary and first fallback answered 404, the second fallback
\* answered 200 with a JSON body, which run returned decoded.
FallbackAnswered ==
    /\ pxPc = "done"
    /\ Len(pxReplies) = 3
    /\ pxReplies[3].status = 200
    /\ pxOut = [kind |-> "return", value |-> [path |-> 2, form |-> "parsed"]]

RunWithinTimeout == (pxCaller = "run" /\ TimeoutArmed(pxT)) => pxNow <= pxT

\* C24: a dynamic call to a URL with a cached method makes no OPTIONS request
\* and uses the cached method; for a URL not in the cache exactly one OPTIONS
\* request is made, and with H the Allow header of its reply: when H names
\* one of POST, GET, PUT the first of them in that order is used and cached
\* under the URL; when there is no Allow header or it names none of the
\* three, an error is raised and the cache is unchanged.
MethodDiscovery ==
    [][/\ (dtPc = "idle" /\ dtPc' # "idle")
            => IF dtCache[dtUrl'] # "none"
               THEN dtPc' = "request" /\ dtMethod' = dtCache[dtUrl'] /\ dtOptions' = 0
               ELSE dtPc' = "options"
       /\ (dtPc = "request") => (dtOptions' = dtOptions /\ dtCache' = dtCache)
       /\ (dtPc = "options")
            => LET hs == {j \in 1..Len(dtReply') : dtReply'[j].name = "allow"}
                   ms == IF hs = {} THEN {}
                         ELSE dtReply'[CHOOSE j \in hs : \A i \in hs : j <= i].methods
                   m == IF "POST" \in ms THEN "POST"
                        ELSE IF "GET" \in ms THEN "GET"
                        ELSE IF "PUT" \in ms THEN "PUT" ELSE "none"
               IN  /\ dtOptions' = 1
                   /\ IF m # "none"
                      THEN /\ dtCache' = [dtCache EXCEPT ![dtUrl] = m]
                           /\ dtMethod' = m
                           /\ dtPc' = "request"
                      ELSE /\ dtCache' = dtCache
                           /\ dtPc' = "done"
                           /\ dtOut' = "AssertionError"]_vars

\* C25: on both backends a call of stop_container or remove_container
\* returns normally, whatever the container id, the value of force and the
\* error of the backend.
StopRemoveNeverRaise == (rtCall \in {"stop", "remove"}) => rtOut.kind = "returned"

\* C27: get_container_info returns, for the status string of the backend
\* read without regard to letter case, the state of the table: created ->
\* Created, running -> Running, restarting -> Running on Docker, paused ->
\* Paused, stopped -> Stopped on Podman, exited -> Exited, dead -> Dead,
\* removing -> Removing, and Error for every other string.
StatusTable ==
    (rtCall = "info" /\ rtOut.kind = "info")
        => LET st == Lower(rtOut.raw)
           IN  rtOut.state =
                  (IF st = "created" THEN "Created"
                   ELSE IF st = "running" THEN "Running"
                   ELSE IF st = "restarting" /\ rtBackend = "docker" THEN "Running"
                   ELSE IF st = "paused" THEN "Paused"
                   ELSE IF st = "stopped" /\ rtBackend = "podman" THEN "Stopped"
                   ELSE IF st = "exited" THEN "Exited"
                   ELSE IF st = "dead" THEN "Dead"
                   ELSE IF st = "removing" THEN "Removing"
                   ELSE "Error")

\* C27 witness: PodmanRuntime was asked about a container that the backend
\* reports as restarting, and answered Error.
PodmanRestartingIsError ==
    /\ rtCall = "info"
    /\ rtBackend = "podman"
    /\ rtOut = [kind |-> "info", raw |-> "restarting", state |-> "Error"]

\* C26: a files.read(f, mode) that follows a files.write(f, X, mode) of the
\* same mode on the same sandbox returns exactly X, for binary mode and byte
\* strings and for text mode and strings.
FileRoundTrip ==
    (flOut.op = "read" /\ flLast[flOut.path].mode = flOut.mode)
        => /\ flOut.kind = "returned"
           /\ flOut.data = flLast[flOut.path].data

\* C28: adapter.shutdown goes through its steps in the order stop/remove
\* container, delete state entry, delete host directories, and no step is
\* skipped: whatever the outcome of a step, the call goes on with the next one
\* and returns only after the host directories were deleted.
ShutdownStepsAllRun ==
    [][\A s \in Solo :
          (pc'[s] # pc[s] /\ pc'[s] # "dead")
              => /\ (pc[s] = "sd_runtime") => pc'[s] = "sd_load"
                 /\ (pc[s] = "sd_load") => pc'[s] = "sd_write"
                 /\ (pc[s] = "sd_write") => (pc'[s] = "sd_dirs" /\ ~Present(stateFile'[s]))
                 /\ (pc[s] = "sd_dirs")
                       => (pc'[s] = "idle" /\ s \notin scratch' /\ s \notin volumes')]_vars

\* C29: at the step where the watchdog of a sandbox leaves its loop, if the
\* state store has no entry for the sandbox then its container does not
\* exist in the runtime.
WatchdogExitLeavesNoContainer ==
    [][\A s \in Solo :
          (wd[s] \notin {"exited", "reaped"} /\ wd'[s] \in {"exited", "reaped"}
             /\ ~Present(stateFile'[s]))
              => s \notin containers']_vars

\* C30: a watchdog that runs eventually leaves its loop, whatever the created_at
\* and last_active_at of its entry are, parseable or not.
WatchdogTerminates ==
    \A s \in Solo : (wd[s] = "poll") ~> (wd[s] \in {"exited", "reaped"})

\* C31: the watchdog's stop call never removes the container of a sandbox
\* whose persisted entry, at the moment of the call, has its idle deadline
\* (last_active_at + timeout_seconds) and its hard deadline both in the
\* future.
NoReapBeforePersistedDeadline ==
    [][\A s \in Solo :
          (wd[s] = "reap" /\ wd'[s] = "reap_open" /\ s \in containers
             /\ s \notin containers' /\ Present(stateFile[s]))
              => ~(/\ now < IdleDeadline(stateFile[s])
                   /\ now < LifetimeDeadline(stateFile[s]))]_vars

\* C32: once Sandbox.shutdown() has returned on an object (_closed is set)
\* and left the state store and the host directories free of the id, every
\* later step leaves them free of it: no state entry, no scratch directory
\* and no volume directory of the id comes back.
ClosedStaysGone ==
    [][\A s \in Solo :
          (closed[s] /\ ~Present(stateFile[s]) /\ s \notin scratch
             /\ s \notin volumes)
              => (~Present(stateFile'[s]) /\ s \notin scratch'
                    /\ s \notin volumes')]_vars

\* C33: main() of the watchdog never ends with an exception: whatever the
\* state file and the entry hold and however the runtime fails, a pass of
\* the loop goes on to the sleep or returns an exit code.
WatchdogNeverRaises == wiOut.kind # "raise"

\* C34: a Sandbox(...) whose adapter.create raised has left nothing for its
\* id: no container in the runtime, no state entry, no volume directory, no
\* scratch directory, no watchdog process.
FailedCreateLeavesNothing ==
    \A s \in Ids :
        pc[s] = "failed"
            => /\ s \notin containers
               /\ ~Present(stateFile[s])
               /\ s \notin volumes
               /\ s \notin scratch
               /\ wd[s] = "none"

\* C35: the pool never holds the same sandbox at two positions, and a
\* sandbox that create() takes from the pool is not left in the pool for the
\* next create() to hand out as well.
PoolHoldsEachOnce ==
    /\ [](\A i, j \in 1..Len(pgPool) : pgPool[i] = pgPool[j] => i = j)
    /\ [][(Len(pgPool') = Len(pgPool) - 1 /\ pgClosed' = pgClosed)
             => \A i \in 1..Len(pgPool') : pgPool'[i] # pgOut']_vars

\* C36: at the step where a close() / __exit__ returns, every sandbox that
\* the playground has constructed has had its shutdown() carried out.
NoSandboxOutlivesClose ==
    [][(pgPc = "cleanup" /\ pgPc' = "idle")
          => \A s \in Ids : pc[s] \in Ready => closed'[s]]_vars

\* C37: no playground operation and no signal handler blocks: the thread is
\* never stuck in put() on the full pool with the lock held, and never stuck
\* in the handler's _cleanup waiting for the lock that it holds itself.
PlaygroundNeverBlocks == pgPc \notin {"put_blocked", "sig_blocked"}

\* C38: the step that enters refresh_timeout(h, s) sets timeout_seconds of
\* the handle to s and its last_active_at to the clock; the step at which the
\* call returns leaves both in the entry of the sandbox; and a watchdog that
\* has read the entry goes to sleep only before last_active_at +
\* timeout_seconds of that entry, and reaps no earlier than the earlier of
\* its two deadlines.
RefreshSetsAndPersists ==
    [][\A s \in Solo :
          /\ (refArg[s] = NoArg /\ refArg'[s] # NoArg)
                => (handle'[s].D = refArg'[s] /\ handle'[s].la = now)
          /\ (refArg[s] # NoArg /\ pc[s] = "op_write" /\ pc'[s] = "idle")
                => /\ stateFile'[s].D = refArg[s]
                   /\ stateFile'[s].la = handle[s].la
                   /\ IdleDeadline(Parsed(stateFile'[s], now)) = handle[s].la + refArg[s]
          /\ (wd[s] = "decide" /\ wd'[s] = "sleep")
                => now < wdSnap[s][s].la + wdSnap[s][s].D
          /\ (wd[s] = "decide" /\ wd'[s] = "reap")
                => now >= Min(wdSnap[s][s].la + wdSnap[s][s].D,
                              LifetimeDeadline(wdSnap[s][s]))]_vars

\* C38 witness: a refresh_timeout(MaxTimeout + 1) made later than the
\* creation is in the store, and the watchdog, having read it at the old
\* deadline, sleeps.
RefreshedEntryKeepsSandbox ==
    \E s \in Solo :
        /\ pc[s] = "idle"
        /\ stateFile[s] = handle[s]
        /\ stateFile[s].D = MaxTimeout + 1
        /\ stateFile[s].la > stateFile[s].created
        /\ wd[s] = "sleep"
        /\ now >= stateFile[s].created + MaxTimeout
        /\ s \in containers

\* C39: the persisted timeout_seconds of a sandbox changes only at the step
\* where a refresh_timeout call, on whichever object, writes the entry.
TimeoutOnlyByRefresh ==
    [][\A s \in Solo :
          (Present(stateFile[s]) /\ Present(stateFile'[s])
             /\ stateFile'[s].D # stateFile[s].D)
              => \/ refArg[s] # NoArg /\ pc[s] = "op_write" /\ pc'[s] = "idle"
                 \/ chArg # NoArg /\ chHandle.cid = s /\ chPc = "op_write"
                      /\ chPc' = "idle"]_vars

\* C40: stream_pty_output loses nothing: what it has yielded is always the
\* chunks put on the output queue so far, in the order put, less those
\* still queued, and the generator ends only at a moment when the session
\* is closed and the output queue is empty.
PtyStreamLosesNothing ==
    /\ [](ptYield \o ptQueue = ptPut)
    /\ [][(ptCs # "done" /\ ptCs' = "done") => (ptClosed' /\ ptQueue' = <<>>)]_vars

====
